---- MODULE Spec2Model ----
(***************************************************************************)
(* The notification relay of src/bot.js: the change-feed handlers, the     *)
(* event-key builder, the dedup store, the milestone tracker and the       *)
(* periodic sweep, as a state machine.                                     *)
(*                                                                         *)
(* Time is counted in seconds; Date.now() is 1000 * now.  A JavaScript     *)
(* number is an IEEE-754 double: a number read from a payload is written   *)
(* in thousandths (the double nearest to n / 1000), a computed number as   *)
(* the decimal JavaScript prints for it (see the section on doubles).      *)
(* A string is the sequence of its characters.                             *)
(***************************************************************************)
EXTENDS Integers, Sequences, FiniteSets, TLC

VARIABLES
  now,              \* the wall clock, in seconds since the epoch
  nextSweep,        \* when the setInterval callback is next due (seconds)
  processedEvents,  \* Map eventId -> Date.now() at first sight (seconds)
  milestoneCache,   \* Map cacheKey -> the milestone last notified
  handlers,         \* every change-feed callback invoked so far, in arrival order
  sent,             \* every text handed to bot.sendMessage, in call order
  outcomes,         \* for each of them: "pending", "ok" or "failed"
  queue,            \* the messages put on the work queue, deleted ones marked gone
  poll,             \* where pollSQSMessages stands
  deletes,          \* every deleteMessage call issued, in call order
  timers,           \* the due times of the pending setTimeout(pollSQSMessages)
  boot,             \* the top-level script: its position, its exit status once it
                    \* has exited, the environment, what it made
  keys              \* the results of direct calls of generateEventId

pollVars == <<queue, poll, deletes, timers>>

vars ==
  <<now, nextSweep, processedEvents, milestoneCache, handlers, sent, outcomes,
    queue, poll, deletes, timers, boot, keys>>

(***************************************************************************)
(* JavaScript values.  n is the number (thousandths) or the boolean (0/1), *)
(* s the characters of a string.                                           *)
(***************************************************************************)
Undefined == [t |-> "undefined", n |-> 0, s |-> <<>>]

Null == [t |-> "null", n |-> 0, s |-> <<>>]

JsBool(b) == [t |-> "boolean", n |-> IF b THEN 1 ELSE 0, s |-> <<>>]

JsNum(m) == [t |-> "number", n |-> m, s |-> <<>>]

JsStr(cs) == [t |-> "string", n |-> 0, s |-> cs]

\* x in a boolean position (x || y, Boolean(x), x ? a : b)
Truthy(v) ==
  CASE v.t = "undefined" -> FALSE
    [] v.t = "null" -> FALSE
    [] v.t = "boolean" -> v.n = 1
    [] v.t = "number" -> v.n # 0
    [] OTHER -> v.s # <<>>

\* a || b
OrElse(a, b) == IF Truthy(a) THEN a ELSE b

\* a row image: the object's own keys are the function's domain
EmptyRow == [f \in {} |-> Undefined]

\* row[f], row.f
Get(row, f) == IF f \in DOMAIN row THEN row[f] ELSE Undefined

\* payload.old || {}
OldOrEmpty(p) == IF p.hasOld THEN p.old ELSE EmptyRow

\* payload.old?.f
OldField(p, f) == IF p.hasOld THEN Get(p.old, f) ELSE Undefined

(***************************************************************************)
(* Strings.                                                                *)
(***************************************************************************)
DigitChars == <<"0", "1", "2", "3", "4", "5", "6", "7", "8", "9">>

UpperChars ==
  <<"A", "B", "C", "D", "E", "F", "G", "H", "I", "J", "K", "L", "M",
    "N", "O", "P", "Q", "R", "S", "T", "U", "V", "W", "X", "Y", "Z">>

LowerChars ==
  <<"a", "b", "c", "d", "e", "f", "g", "h", "i", "j", "k", "l", "m",
    "n", "o", "p", "q", "r", "s", "t", "u", "v", "w", "x", "y", "z">>

IsDigit(ch) == \E i \in 1..10 : DigitChars[i] = ch

DigitVal(ch) == (CHOOSE i \in 1..10 : DigitChars[i] = ch) - 1

RECURSIVE NatToChars(_)
NatToChars(k) ==
  IF k < 10 THEN <<DigitChars[k + 1]>>
  ELSE NatToChars(k \div 10) \o <<DigitChars[(k % 10) + 1]>>

\* the fraction digits of f thousandths, trailing zeros dropped
FracChars(f) ==
  LET d1 == DigitChars[(f \div 100) + 1]
      d2 == DigitChars[((f \div 10) % 10) + 1]
      d3 == DigitChars[(f % 10) + 1]
  IN  IF f = 0 THEN <<>>
      ELSE IF f % 100 = 0 THEN <<".", d1>>
      ELSE IF f % 10 = 0 THEN <<".", d1, d2>>
      ELSE <<".", d1, d2, d3>>

\* Number.prototype.toString of the double nearest to m / 1000
NumToChars(m) ==
  LET a == IF m < 0 THEN 0 - m ELSE m
  IN  (IF m < 0 THEN <<"-">> ELSE <<>>) \o NatToChars(a \div 1000) \o FracChars(a % 1000)

\* String(v), `${v}`
ToStringJs(v) ==
  CASE v.t = "undefined" -> <<"u", "n", "d", "e", "f", "i", "n", "e", "d">>
    [] v.t = "null" -> <<"n", "u", "l", "l">>
    [] v.t = "boolean" -> IF v.n = 1 THEN <<"t", "r", "u", "e">> ELSE <<"f", "a", "l", "s", "e">>
    [] v.t = "number" -> NumToChars(v.n)
    [] OTHER -> v.s

\* one element of Array.prototype.join: undefined and null give ''
JoinElement(v) == IF v.t \in {"undefined", "null"} THEN <<>> ELSE ToStringJs(v)

LowerChar(ch) ==
  IF \E i \in 1..26 : UpperChars[i] = ch
  THEN LowerChars[CHOOSE i \in 1..26 : UpperChars[i] = ch]
  ELSE ch

\* String.prototype.toLowerCase
ToLowerCase(cs) == [i \in 1..Len(cs) |-> LowerChar(cs[i])]

\* the upper four bits of a character's code
HighNibble(ch) ==
  CASE ch \in {" ", "-", ".", "+", "/"} -> 2
    [] IsDigit(ch) \/ ch = ":" -> 3
    [] \E i \in 1..15 : UpperChars[i] = ch -> 4
    [] (\E i \in 16..26 : UpperChars[i] = ch) \/ ch = "_" -> 5
    [] \E i \in 1..15 : LowerChars[i] = ch -> 6
    [] OTHER -> 7   \* p..z and |

(***************************************************************************)
(* Doubles.  A computed number is the record [nan, c, r] standing for the  *)
(* double that JavaScript prints as c / 1000 + r * 10^-20 (the shortest    *)
(* decimal that reads back as that double), so "0.02" is [c 20, r 0] and   *)
(* 1.02 - 1 = 0.020000000000000018 is [c 20, r 1800].  Printed decimals    *)
(* order as the doubles do.  The sum or difference of two whole numbers    *)
(* below 2^53 is exact; the difference of two numbers with a fraction is   *)
(* rounded, and SubResidue tabulates that rounding for the fractional      *)
(* values the payloads of this model carry in one field (amount_deposited: *)
(* -1, 0, 0.01, 0.02, 1, 1.01, 1.02; total_pnl: 0, 28.01, 99.99, 100,      *)
(* 128.01; percent_ratio: 0.1, 0.101, 0.102, 0.5).                         *)
(***************************************************************************)
NaN == [nan |-> TRUE, c |-> 0, r |-> 0]

\* the double nearest to c / 1000
Dbl(c) == [nan |-> FALSE, c |-> c, r |-> 0]

\* r of fl(a / 1000) - fl(b / 1000), in units of 10^-20
SubResidue(a, b) ==
  CASE a = 100 /\ b = 101 -> -90   \* 0.1 - 0.101 = -0.0010000000000000009
    [] a = 100 /\ b = 102 -> 1200   \* 0.1 - 0.102 = -0.001999999999999988
    [] a = 101 /\ b = 100 -> 90   \* 0.101 - 0.1 = 0.0010000000000000009
    [] a = 101 /\ b = 102 -> 1300   \* 0.101 - 0.102 = -0.000999999999999987
    [] a = 102 /\ b = 100 -> -1200   \* 0.102 - 0.1 = 0.001999999999999988
    [] a = 102 /\ b = 101 -> -1300   \* 0.102 - 0.101 = 0.000999999999999987
    [] a = 1000 /\ b = 1010 -> -900   \* 1.0 - 1.01 = -0.010000000000000009
    [] a = 1000 /\ b = 1020 -> -1800   \* 1.0 - 1.02 = -0.020000000000000018
    [] a = 1010 /\ b = 1000 -> 900   \* 1.01 - 1.0 = 0.010000000000000009
    [] a = 1010 /\ b = 1020 -> -900   \* 1.01 - 1.02 = -0.010000000000000009
    [] a = 1020 /\ b = 1000 -> 1800   \* 1.02 - 1.0 = 0.020000000000000018
    [] a = 1020 /\ b = 1010 -> 900   \* 1.02 - 1.01 = 0.010000000000000009
    [] a = 28010 /\ b = 99990 -> 1000000   \* 28.01 - 99.99 = -71.97999999999999
    [] a = 28010 /\ b = 128010 -> 1000000   \* 28.01 - 128.01 = -99.99999999999999
    [] a = 99990 /\ b = 28010 -> -1000000   \* 99.99 - 28.01 = 71.97999999999999
    [] a = 99990 /\ b = 100000 -> -511600   \* 99.99 - 100.0 = -0.010000000000005116
    [] a = 99990 /\ b = 128010 -> 400000   \* 99.99 - 128.01 = -28.019999999999996
    [] a = 100000 /\ b = 99990 -> 511600   \* 100.0 - 99.99 = 0.010000000000005116
    [] a = 100000 /\ b = 128010 -> 1000000   \* 100.0 - 128.01 = -28.00999999999999
    [] a = 128010 /\ b = 28010 -> -1000000   \* 128.01 - 28.01 = 99.99999999999999
    [] a = 128010 /\ b = 99990 -> -400000   \* 128.01 - 99.99 = 28.019999999999996
    [] a = 128010 /\ b = 100000 -> -1000000   \* 128.01 - 100.0 = 28.00999999999999
    [] OTHER -> 0

\* x - y on numbers read from a payload
FSub(x, y) ==
  IF x.nan \/ y.nan THEN NaN
  ELSE [nan |-> FALSE, c |-> x.c - y.c, r |-> SubResidue(x.c, y.c)]

\* x < y (false when either is NaN)
DLt(x, y) == ~x.nan /\ ~y.nan /\ (x.c < y.c \/ (x.c = y.c /\ x.r < y.r))

\* x > y
DGt(x, y) == DLt(y, x)

\* x >= y
DGe(x, y) == ~x.nan /\ ~y.nan /\ ~DLt(x, y)

\* Math.abs(x)
DAbs(x) ==
  IF ~x.nan /\ (x.c < 0 \/ (x.c = 0 /\ x.r < 0))
  THEN [nan |-> FALSE, c |-> 0 - x.c, r |-> 0 - x.r]
  ELSE x

RECURSIVE DigitsValue(_)
DigitsValue(cs) ==
  IF cs = <<>> THEN 0
  ELSE 10 * DigitsValue(SubSeq(cs, 1, Len(cs) - 1)) + DigitVal(cs[Len(cs)])

AllDigits(cs) == \A i \in 1..Len(cs) : IsDigit(cs[i])

\* the thousandths of an unsigned decimal literal with at most three fraction digits
UnsignedValue(cs) ==
  LET dots == {i \in 1..Len(cs) : cs[i] = "."}
      dot == IF dots = {} THEN Len(cs) + 1 ELSE CHOOSE i \in dots : \A j \in dots : i <= j
      ip == SubSeq(cs, 1, dot - 1)
      fp == SubSeq(cs, dot + 1, Len(cs))
      pad == fp \o SubSeq(<<"0", "0", "0">>, 1, 3 - Len(fp))
  IN  1000 * DigitsValue(ip) + DigitsValue(pad)

IsUnsignedLiteral(cs) ==
  LET dots == {i \in 1..Len(cs) : cs[i] = "."}
      dot == IF dots = {} THEN Len(cs) + 1 ELSE CHOOSE i \in dots : \A j \in dots : i <= j
      ip == SubSeq(cs, 1, dot - 1)
      fp == SubSeq(cs, dot + 1, Len(cs))
  IN  /\ Cardinality(dots) <= 1
      /\ AllDigits(ip) /\ AllDigits(fp)
      /\ Len(ip) + Len(fp) >= 1
      /\ Len(fp) <= 3

\* Number(string): '' is 0, a decimal literal its value, anything else NaN
\* (the strings of this model carry no blanks, exponents or radix prefixes)
StringToNumber(cs) ==
  LET neg == cs # <<>> /\ cs[1] = "-"
      body == IF neg THEN SubSeq(cs, 2, Len(cs)) ELSE cs
  IN  IF cs = <<>> THEN Dbl(0)
      ELSE IF IsUnsignedLiteral(body)
      THEN Dbl(IF neg THEN 0 - UnsignedValue(body) ELSE UnsignedValue(body))
      ELSE NaN

\* Number(v), and the operand conversion of v - w
ToNumber(v) ==
  CASE v.t = "undefined" -> NaN
    [] v.t = "null" -> Dbl(0)
    [] v.t = "boolean" -> Dbl(1000 * v.n)
    [] v.t = "number" -> Dbl(v.n)
    [] OTHER -> StringToNumber(v.s)

\* Number(v || 0)
NumberOrZero(v) == ToNumber(OrElse(v, JsNum(0)))

(***************************************************************************)
(* Key Builder: generateEventId.  The key is kept as its four parts; the   *)
(* primary key and the timestamp stay joined as in the template string,    *)
(* and the field token is kept as what its ten base64 characters carry:    *)
(* the first seven bytes of the joined values and the upper four bits of   *)
(* the eighth.  Two keys are equal strings exactly when these are equal.   *)
(***************************************************************************)
relevantFields(table) ==
  CASE table = "Users" ->
         <<"amount_deposited", "total_pnl", "total_volume", "txns_executed",
           "is_copytrading_enabled", "fees_total">>
    [] table = "Auto_Trade" -> <<"status">>
    [] table = "Copy_Wallets" -> <<"is_enabled", "percent_ratio">>
    [] OTHER -> <<>>

RECURSIVE JoinValues(_, _)
\* fields.map(field => row[field]).join('|')
JoinValues(row, fields) ==
  IF fields = <<>> THEN <<>>
  ELSE IF Len(fields) = 1 THEN JoinElement(Get(row, fields[1]))
  ELSE JoinElement(Get(row, fields[1])) \o <<"|">> \o JoinValues(row, Tail(fields))

\* Buffer.from(values).toString('base64').slice(0, 10)
Base64Prefix(values) ==
  IF Len(values) <= 7 THEN [pre |-> values, nib |-> 0]
  ELSE [pre |-> SubSeq(values, 1, 7), nib |-> HighNibble(values[8])]

\* String(Date.now()) at wall-clock second t
DateNowChars(t) == NatToChars(t) \o <<"0", "0", "0">>

\* a variant that prefers created_at to updated_at
generateEventIdCreatedFirst(table, event, payload, t) ==
  LET pk == OrElse(Get(payload.new, "id"), OldField(payload, "id"))
      stamp == OrElse(Get(payload.new, "created_at"), Get(payload.new, "updated_at"))
      timestamp == IF Truthy(stamp) THEN ToStringJs(stamp) ELSE DateNowChars(t)
      fieldHash ==
        IF event = "UPDATE" /\ relevantFields(table) # <<>>
        THEN Base64Prefix(JoinValues(payload.new, relevantFields(table)))
        ELSE Base64Prefix(<<>>)
  IN  [table |-> table, event |-> event,
       pkts |-> ToStringJs(pk) \o <<":">> \o timestamp,
       fieldHash |-> fieldHash]

generateEventId(table, event, payload, t) ==
  LET pk == OrElse(Get(payload.new, "id"), OldField(payload, "id"))
      stamp == OrElse(Get(payload.new, "updated_at"), Get(payload.new, "created_at"))
      timestamp == IF Truthy(stamp) THEN ToStringJs(stamp) ELSE DateNowChars(t)
      fieldHash ==
        IF event = "UPDATE" /\ relevantFields(table) # <<>>
        THEN Base64Prefix(JoinValues(payload.new, relevantFields(table)))
        ELSE Base64Prefix(<<>>)
  IN  [table |-> table, event |-> event,
       pkts |-> ToStringJs(pk) \o <<":">> \o timestamp,
       fieldHash |-> fieldHash]

(***************************************************************************)
(* Dedup Store and Milestone Tracker.                                      *)
(***************************************************************************)
EVENT_CACHE_TTL == 5 * 60 * 1000

MILESTONE_TTL == 60 * 60 * 1000

SWEEP_INTERVAL == 60000

\* map.set(k, v)
MapSet(m, k, v) == [x \in DOMAIN m \cup {k} |-> IF x = k THEN v ELSE m[x]]

\* the map without the keys in gone (map.delete on each)
MapDelete(m, gone) == [x \in DOMAIN m \ gone |-> m[x]]

\* processedEvents.has(eventId)
HasEvent(pe, eventId) == eventId \in DOMAIN pe

\* a variant of isDuplicateEvent that records the key and reports every key as new
isDuplicateEventBlind(pe, eventId, t) == [dup |-> FALSE, store |-> MapSet(pe, eventId, t)]

\* a variant of isDuplicateEvent that stamps the key anew on every call
isDuplicateEventRefreshing(pe, eventId, t) ==
  [dup |-> HasEvent(pe, eventId), store |-> MapSet(pe, eventId, t)]

\* isDuplicateEvent at wall-clock second t: what it returns and the store it leaves
isDuplicateEvent(pe, eventId, t) ==
  IF HasEvent(pe, eventId)
  THEN [dup |-> TRUE, store |-> pe]
  ELSE [dup |-> FALSE, store |-> MapSet(pe, eventId, t)]

\* a variant of the expiry test with >= for >
EventExpiredInclusive(t, timestamp) == (t - timestamp) * 1000 >= EVENT_CACHE_TTL

\* a variant of the expiry test that keeps an entry one sweep interval longer
EventExpiredLate(t, timestamp) == (t - timestamp) * 1000 > EVENT_CACHE_TTL + SWEEP_INTERVAL

\* now - timestamp > EVENT_CACHE_TTL, both read in seconds
EventExpired(t, timestamp) == (t - timestamp) * 1000 > EVENT_CACHE_TTL

\* now - timestamp > 60 * 60 * 1000 on a milestoneCache entry: the value stored
\* there is read as milliseconds and Date.now() is 1000 * t
MilestoneExpired(t, timestamp) == t > (timestamp + MILESTONE_TTL) \div 1000

\* a variant of the sweep that leaves the dedup store alone
SweepEventsNone(pe, t) == pe

\* the setInterval callback at wall-clock second t
SweepEvents(pe, t) == MapDelete(pe, {k \in DOMAIN pe : EventExpired(t, pe[k])})

SweepMilestones(mc, t) == MapDelete(mc, {k \in DOMAIN mc : MilestoneExpired(t, mc[k])})

volumeMilestones == <<1000, 5000, 10000, 25000, 50000, 100000>>

txnMilestones == <<10, 50, 100, 500, 1000>>

\* a variant of the cache key without the metric
CacheKeyUserOnly(userId, milestoneType) == <<ToStringJs(userId), "volume">>

\* `${userId}:${milestoneType}`
CacheKey(userId, milestoneType) == <<ToStringJs(userId), milestoneType>>

\* milestoneCache.get(cacheKey) || 0
LastNotified(mc, cacheKey) == IF cacheKey \in DOMAIN mc THEN mc[cacheKey] ELSE 0

\* a variant of the loop test that admits the milestone already recorded
CrossesAtMark(oldValue, newValue, milestone, lastNotified) ==
  /\ DLt(oldValue, Dbl(1000 * milestone))
  /\ DGe(newValue, Dbl(1000 * milestone))
  /\ milestone >= lastNotified

\* the test of the loop body
Crosses(oldValue, newValue, milestone, lastNotified) ==
  /\ DLt(oldValue, Dbl(1000 * milestone))
  /\ DGe(newValue, Dbl(1000 * milestone))
  /\ milestone > lastNotified

\* a variant of the loop that returns the highest milestone crossed
HighestCrossing(milestones, i, oldValue, newValue, lastNotified) ==
  LET hits == {k \in i..Len(milestones) :
                 Crosses(oldValue, newValue, milestones[k], lastNotified)}
  IN  IF hits = {} THEN 0 ELSE milestones[CHOOSE k \in hits : \A h \in hits : h <= k]

RECURSIVE FirstCrossing(_, _, _, _, _)
\* the for loop from index i on: the milestone it returns at, or 0 for null
FirstCrossing(milestones, i, oldValue, newValue, lastNotified) ==
  IF i > Len(milestones) THEN 0
  ELSE IF Crosses(oldValue, newValue, milestones[i], lastNotified) THEN milestones[i]
  ELSE FirstCrossing(milestones, i + 1, oldValue, newValue, lastNotified)

\* a variant that returns the milestone without recording it
checkAndNotifyMilestoneUnrecorded(mc, userId, milestoneType, oldValue, newValue, milestones) ==
  LET cacheKey == CacheKey(userId, milestoneType)
      lastNotified == LastNotified(mc, cacheKey)
      hit == FirstCrossing(milestones, 1, oldValue, newValue, lastNotified)
  IN  [milestone |-> hit, lastNotified |-> lastNotified, cache |-> mc]

\* checkAndNotifyMilestone: the milestone notified (0: null) and the cache it leaves
checkAndNotifyMilestone(mc, userId, milestoneType, oldValue, newValue, milestones) ==
  LET cacheKey == CacheKey(userId, milestoneType)
      lastNotified == LastNotified(mc, cacheKey)
      hit == FirstCrossing(milestones, 1, oldValue, newValue, lastNotified)
  IN  [milestone |-> hit,
       lastNotified |-> lastNotified,
       cache |-> IF hit = 0 THEN mc ELSE MapSet(mc, cacheKey, hit)]

(***************************************************************************)
(* Event Classifier: the change-feed callbacks.  A callback runs without   *)
(* interruption up to its next await sendTelegramMessage(...); a run of    *)
(* it from one await to the next is a segment: where it stops (pc), the    *)
(* text it handed to the sender (at most one), the milestone cache it      *)
(* leaves and the milestone checks it made (a record of                    *)
(* checkAndNotifyMilestone's arguments and result, kept for the claims).   *)
(***************************************************************************)
Note(kind, val) == [kind |-> kind, val |-> val]

Finished(mc, checks) == [pc |-> "done", notes |-> <<>>, cache |-> mc, checks |-> checks]

Awaiting(pc, note, mc, checks) == [pc |-> pc, notes |-> <<note>>, cache |-> mc, checks |-> checks]

UsersStages == <<"deposit", "pnl", "volume", "txns", "copytrading", "fees">>

\* Object.keys(row).length > 1
HasRelevantOldData(row) == Cardinality(DOMAIN row) > 1

\* // Deposit detection
DepositRule(userNew, userOld) ==
  LET newAmt == NumberOrZero(Get(userNew, "amount_deposited"))
      oldAmt == NumberOrZero(Get(userOld, "amount_deposited"))
      depositAmount == FSub(newAmt, oldAmt)
  IN  [fire |-> DGt(newAmt, oldAmt) /\ DGe(oldAmt, Dbl(0)) /\ DGt(depositAmount, Dbl(10)),
       val |-> depositAmount]

\* // PnL changes
PnlRule(userNew, userOld) ==
  LET newPnL == NumberOrZero(Get(userNew, "total_pnl"))
      oldPnL == NumberOrZero(Get(userOld, "total_pnl"))
      pnlChange == FSub(newPnL, oldPnL)
  IN  [fire |-> DGe(DAbs(pnlChange), Dbl(100000)), val |-> pnlChange]

\* // Volume milestones, // Trading milestones
\* if (msg) send it; kept with the arguments and the result of the call
MilestoneOutcome(userId, milestoneType, oldValue, newValue, res) ==
  [fire |-> res.milestone # 0,
   val |-> Dbl(1000 * res.milestone),
   cache |-> res.cache,
   check |-> [key |-> CacheKey(userId, milestoneType), metric |-> milestoneType,
              old |-> oldValue, new |-> newValue,
              last |-> res.lastNotified, hit |-> res.milestone]]

MilestoneChecked(mc, userId, milestoneType, oldValue, newValue, milestones) ==
  MilestoneOutcome(userId, milestoneType, oldValue, newValue,
                   checkAndNotifyMilestone(mc, userId, milestoneType,
                                           oldValue, newValue, milestones))

MilestoneRule(mc, userNew, userOld, milestoneType, field, milestones) ==
  MilestoneChecked(mc, Get(userNew, "id"), milestoneType,
                   NumberOrZero(Get(userOld, field)), NumberOrZero(Get(userNew, field)),
                   milestones)

\* a variant of the copytrading rule without the test for the key
CopytradingRuleAnyBefore(userNew, userOld) ==
  [fire |-> Truthy(Get(userNew, "is_copytrading_enabled"))
              # Truthy(Get(userOld, "is_copytrading_enabled")),
   val |-> Dbl(0)]

\* // Copytrading status changes
CopytradingRule(userNew, userOld) ==
  LET newCopytrading == Truthy(Get(userNew, "is_copytrading_enabled"))
      oldCopytrading == Truthy(Get(userOld, "is_copytrading_enabled"))
  IN  [fire |-> "is_copytrading_enabled" \in DOMAIN userOld /\ newCopytrading # oldCopytrading,
       val |-> Dbl(0)]

\* // Fee accumulation alerts
FeeRule(userNew, userOld) ==
  LET newFees == NumberOrZero(Get(userNew, "fees_total"))
      oldFees == NumberOrZero(Get(userOld, "fees_total"))
      feeIncrease == FSub(newFees, oldFees)
  IN  [fire |-> DGe(feeIncrease, Dbl(50000)), val |-> feeIncrease]

\* the k-th rule of the Users UPDATE callback: whether it sends, what, and the
\* milestone cache and check it leaves
UsersRule(k, payload, mc) ==
  LET userNew == payload.new
      userOld == OldOrEmpty(payload)
      plain(r) == [fire |-> r.fire, val |-> r.val, cache |-> mc, checks |-> <<>>]
      tracked(r) == [fire |-> r.fire, val |-> r.val, cache |-> r.cache, checks |-> <<r.check>>]
  IN  CASE k = 1 -> plain(DepositRule(userNew, userOld))
        [] k = 2 -> plain(PnlRule(userNew, userOld))
        [] k = 3 -> tracked(MilestoneRule(mc, userNew, userOld, "volume", "total_volume",
                                          volumeMilestones))
        [] k = 4 -> tracked(MilestoneRule(mc, userNew, userOld, "txns", "txns_executed",
                                          txnMilestones))
        [] k = 5 -> plain(CopytradingRule(userNew, userOld))
        [] OTHER -> plain(FeeRule(userNew, userOld))

RECURSIVE UsersRun(_, _, _, _)
\* after the k-th rule gave r: await its send, or go on to the next rule
UsersAfter(k, payload, checks, r) ==
  IF r.fire
  THEN Awaiting(UsersStages[k], Note(UsersStages[k], r.val), r.cache, checks \o r.checks)
  ELSE UsersRun(k + 1, payload, r.cache, checks \o r.checks)

\* the Users UPDATE callback from its k-th rule up to its next await
UsersRun(k, payload, mc, checks) ==
  IF k > Len(UsersStages) THEN Finished(mc, checks)
  ELSE UsersAfter(k, payload, checks, UsersRule(k, payload, mc))

\* the Users UPDATE callback after the dedup gate
UsersUpdate(payload, mc) ==
  IF ~HasRelevantOldData(OldOrEmpty(payload)) THEN Finished(mc, <<>>)
  ELSE UsersRun(1, payload, mc, <<>>)

ExecutedChars == <<"e", "x", "e", "c", "u", "t", "e", "d">>

FailedChars == <<"f", "a", "i", "l", "e", "d">>

SkippedChars == <<"s", "k", "i", "p", "p", "e", "d">>

\* String(v || '').toLowerCase()
StatusOf(v) == ToLowerCase(ToStringJs(OrElse(v, JsStr(<<>>))))

\* the Auto_Trade UPDATE callback after the dedup gate
AutoTradeUpdate(payload, mc) ==
  LET status == StatusOf(Get(payload.new, "status"))
      prevStatus == StatusOf(OldField(payload, "status"))
  IN  IF status = prevStatus THEN Finished(mc, <<>>)
      ELSE IF status = ExecutedChars
      THEN Awaiting("send", Note("trade_executed", Dbl(0)), mc, <<>>)
      ELSE IF status = FailedChars
      THEN Awaiting("send", Note("trade_failed", Dbl(0)), mc, <<>>)
      ELSE IF status = SkippedChars
      THEN Awaiting("send", Note("trade_skipped", Dbl(0)), mc, <<>>)
      ELSE Finished(mc, <<>>)

\* a variant of the Copy_Wallets UPDATE callback that tests the ratio first
CopyWalletsUpdateRatioFirst(payload, mc) ==
  LET walletNew == payload.new
      walletOld == OldOrEmpty(payload)
      ratioChange == FSub(ToNumber(Get(walletNew, "percent_ratio")),
                          ToNumber(Get(walletOld, "percent_ratio")))
  IN  IF Cardinality(DOMAIN walletOld) <= 1 THEN Finished(mc, <<>>)
      ELSE IF DGt(DAbs(ratioChange), Dbl(1))
      THEN Awaiting("send", Note("wallet_ratio", ratioChange), mc, <<>>)
      ELSE IF Get(walletNew, "is_enabled") # Get(walletOld, "is_enabled")
      THEN Awaiting("send", Note("wallet_enabled", Dbl(0)), mc, <<>>)
      ELSE Finished(mc, <<>>)

\* the Copy_Wallets UPDATE callback after the dedup gate
CopyWalletsUpdate(payload, mc) ==
  LET walletNew == payload.new
      walletOld == OldOrEmpty(payload)
      newEnabled == Get(walletNew, "is_enabled")
      oldEnabled == Get(walletOld, "is_enabled")
      newRatio == Get(walletNew, "percent_ratio")
      oldRatio == Get(walletOld, "percent_ratio")
      ratioChange == FSub(ToNumber(newRatio), ToNumber(oldRatio))
  IN  IF Cardinality(DOMAIN walletOld) <= 1 THEN Finished(mc, <<>>)
      ELSE IF newEnabled # oldEnabled
      THEN Awaiting("send", Note("wallet_enabled", Dbl(0)), mc, <<>>)
      ELSE IF DGt(DAbs(ratioChange), Dbl(1))
      THEN Awaiting("send", Note("wallet_ratio", ratioChange), mc, <<>>)
      ELSE Finished(mc, <<>>)

\* an INSERT callback after the dedup gate: one text, always
InsertKind(table) ==
  CASE table = "Users" -> "user_insert"
    [] table = "Auto_Trade" -> "trade_insert"
    [] table = "Copy_Wallets" -> "wallet_insert"
    [] OTHER -> "mau_insert"

\* the callback registered for (payload.table, payload.event), after its dedup gate
FirstSegment(payload, mc) ==
  CASE payload.event = "INSERT" ->
         Awaiting("send", Note(InsertKind(payload.table), Dbl(0)), mc, <<>>)
    [] payload.event = "UPDATE" /\ payload.table = "Users" -> UsersUpdate(payload, mc)
    [] payload.event = "UPDATE" /\ payload.table = "Auto_Trade" -> AutoTradeUpdate(payload, mc)
    [] OTHER -> CopyWalletsUpdate(payload, mc)

StageIndex(pc) == CHOOSE k \in 1..Len(UsersStages) : UsersStages[k] = pc

\* a variant in which the Users UPDATE callback starts over from its first rule
NextSegmentFromFirst(payload, pc, mc) ==
  IF payload.event = "UPDATE" /\ payload.table = "Users"
  THEN UsersRun(1, payload, mc, <<>>)
  ELSE Finished(mc, <<>>)

\* the callback after the send it awaited at pc has settled
NextSegment(payload, pc, mc) ==
  IF payload.event = "UPDATE" /\ payload.table = "Users"
  THEN UsersRun(StageIndex(pc) + 1, payload, mc, <<>>)
  ELSE Finished(mc, <<>>)

\* the texts of a segment, tagged with the callback (its arrival number) that sent them
Stamp(notes, ev) == [i \in 1..Len(notes) |-> [ev |-> ev, kind |-> notes[i].kind, val |-> notes[i].val]]

(***************************************************************************)
(* The state machine.                                                      *)
(***************************************************************************)
StartTime == 1700000000

TimeStep == 30

Min(a, b) == IF a <= b THEN a ELSE b

\* the names the top-level script reads from process.env, in its order
ConfigNames ==
  <<"SUPABASE_URL", "SUPABASE_KEY", "TELEGRAM_TOKEN", "CHAT_ID",
    "AWS_REGION", "AWS_ACCESS_KEY_ID", "AWS_SECRET_ACCESS_KEY", "SQS_QUEUE_URL">>

\* what the top-level script has made once it has run through
BootSteps == <<"clients", "sweep", "poll", "subscribe">>

Init ==
  /\ now = StartTime
  /\ nextSweep = StartTime + SWEEP_INTERVAL \div 1000
  /\ processedEvents = [k \in {} |-> 0]
  /\ milestoneCache = [k \in {} |-> 0]
  /\ handlers = <<>>
  /\ sent = <<>>
  /\ outcomes = <<>>
  /\ queue = {}
  /\ poll = [pc |-> "receive", cycle |-> 1, batch |-> <<>>, k |-> 0]
  /\ deletes = <<>>
  /\ timers = {}
  /\ boot = [pc |-> "running", code |-> 0,
             env |-> [i \in 1..Len(ConfigNames) |-> JsStr(<<"x">>)],
             made |-> BootSteps]
  /\ keys = {}

\* one "pending" for each text just handed to the sender
Pendings(notes) == [k \in 1..Len(notes) |-> "pending"]

\* the change feed delivers payload: its callback runs up to its first await
Started(payload, eventId, gate, seg) ==
  /\ processedEvents' = gate.store
  /\ milestoneCache' = seg.cache
  /\ handlers' = Append(handlers, [payload |-> payload, eventId |-> eventId,
                                   arrived |-> now, dup |-> gate.dup,
                                   pc |-> seg.pc, checks |-> seg.checks])
  /\ sent' = sent \o Stamp(seg.notes, Len(handlers) + 1)
  /\ outcomes' = outcomes \o Pendings(seg.notes)
  /\ UNCHANGED <<now, nextSweep, pollVars, boot, keys>>

\* a variant in which an UPDATE with too little of a before image returns
\* before the dedup gate, its key not recorded
GatedThinFirst(payload, eventId, gate) ==
  IF payload.event = "UPDATE" /\ ~HasRelevantOldData(OldOrEmpty(payload))
  THEN Started(payload, eventId, [dup |-> FALSE, store |-> processedEvents],
               Finished(milestoneCache, <<>>))
  ELSE Started(payload, eventId, gate,
               IF gate.dup THEN Finished(milestoneCache, <<>>)
               ELSE FirstSegment(payload, milestoneCache))

\* if (isDuplicateEvent(eventId)) return; then the callback's own rules
Gated(payload, eventId, gate) ==
  Started(payload, eventId, gate,
          IF gate.dup THEN Finished(milestoneCache, <<>>)
          ELSE FirstSegment(payload, milestoneCache))

Keyed(payload, eventId) ==
  Gated(payload, eventId, isDuplicateEvent(processedEvents, eventId, now))

Deliver(payload) ==
  Keyed(payload, generateEventId(payload.table, payload.event, payload, now))

\* the send callback i is awaiting
Awaited(i) == CHOOSE k \in 1..Len(sent) : sent[k].ev = i /\ outcomes[k] = "pending"

\* the send awaited by callback i settles with result and the callback runs up to
\* its next await: sendTelegramMessage resolves whether bot.sendMessage did or not
Resumed(i, result, seg) ==
  /\ milestoneCache' = seg.cache
  /\ handlers' = [handlers EXCEPT ![i].pc = seg.pc, ![i].checks = @ \o seg.checks]
  /\ sent' = sent \o Stamp(seg.notes, i)
  /\ outcomes' = [outcomes EXCEPT ![Awaited(i)] = result] \o Pendings(seg.notes)
  /\ UNCHANGED <<now, nextSweep, processedEvents, pollVars, boot, keys>>

\* bot.sendMessage resolved
Resume(i) ==
  /\ handlers[i].pc # "done"
  /\ Resumed(i, "ok", NextSegment(handlers[i].payload, handlers[i].pc, milestoneCache))

\* a variant in which the rejection ends the callback
ResumeFailedAborts(i) ==
  /\ handlers[i].pc # "done"
  /\ Resumed(i, "failed", Finished(milestoneCache, <<>>))

\* bot.sendMessage rejected: the .catch logs the error and the promise resolves
ResumeFailed(i) ==
  /\ handlers[i].pc # "done"
  /\ Resumed(i, "failed", NextSegment(handlers[i].payload, handlers[i].pc, milestoneCache))

\* the instant the next timer is due: the sweep or a scheduled poll
NextDue == CHOOSE d \in timers \cup {nextSweep} : \A e \in timers \cup {nextSweep} : d <= e

\* the clock moves on, not past the instant a timer is due
AdvanceTime(steps) ==
  /\ now < NextDue
  /\ now < StartTime + steps * TimeStep
  /\ now' = Min(now + TimeStep, NextDue)
  /\ UNCHANGED <<nextSweep, processedEvents, milestoneCache, handlers, sent, outcomes,
                 pollVars, boot, keys>>

\* the setInterval callback
Sweep ==
  /\ now = nextSweep
  /\ processedEvents' = SweepEvents(processedEvents, now)
  /\ milestoneCache' = SweepMilestones(milestoneCache, now)
  /\ nextSweep' = nextSweep + SWEEP_INTERVAL \div 1000
  /\ UNCHANGED <<now, handlers, sent, outcomes, pollVars, boot, keys>>

(***************************************************************************)
(* The queue poller: pollSQSMessages and processSQSOrder.  A message is    *)
(* [id, body, visibleAt, gone]; its receipt handle is its id.  A cycle     *)
(* runs from the receive call to the setTimeout that schedules the next    *)
(* one; it stands at the call it awaits: "receive", "send" (the chat send  *)
(* of processSQSOrder), "delete" (the deleteMessage of the try block) or   *)
(* "deleteInCatch" (the deleteMessage of the catch block); between cycles  *)
(* it is "idle".                                                           *)
(***************************************************************************)
POLL_DELAY == 1000

VISIBILITY_TIMEOUT == 30

MAX_MESSAGES == 10

OrderBody == <<"{", "}">>

NullBody == <<"n", "u", "l", "l">>

NumberBody == <<"1">>

BrokenBody == <<"{">>

\* a variant of JSON.parse that takes every body for an object
JsonParseLenient(cs) == [ok |-> TRUE, kind |-> "object"]

\* JSON.parse on the bodies of this model: an empty object, null and a run of
\* digits parse; the empty string and an unclosed brace throw SyntaxError
JsonParse(cs) ==
  CASE cs = OrderBody -> [ok |-> TRUE, kind |-> "object"]
    [] cs = NullBody -> [ok |-> TRUE, kind |-> "null"]
    [] cs # <<>> /\ AllDigits(cs) -> [ok |-> TRUE, kind |-> "number"]
    [] OTHER -> [ok |-> FALSE, kind |-> "none"]

\* const { userId, ... } = orderData throws TypeError on null
Destructures(kind) == kind # "null"

\* the try block for one message up to its first await: "send" when it reaches
\* the chat send of processSQSOrder, "catch" when parsing or destructuring threw
HandleMessage(body) ==
  IF JsonParse(body).ok /\ Destructures(JsonParse(body).kind) THEN "send" ELSE "catch"

\* the text processSQSOrder hands to the sender, tagged with the message it is
\* for and the cycle it is sent in
OrderNote(id, c) == [ev |-> 0, kind |-> "order", val |-> Dbl(0), handle |-> id, cycle |-> c]

\* sqs.deleteMessage({ReceiptHandle}) as issued in cycle c
DeleteCall(id, c, inCatch) == [handle |-> id, cycle |-> c, inCatch |-> inCatch]

\* setTimeout(pollSQSMessages, 1000): the cycle is over
EndCycle ==
  /\ poll' = [pc |-> "idle", cycle |-> poll.cycle, batch |-> <<>>, k |-> 0]
  /\ timers' = timers \cup {now + POLL_DELAY \div 1000}
  /\ UNCHANGED <<sent, outcomes, deletes>>

\* the for loop at batch[k], up to the next await; past the end the cycle is over
EnterMessage(batch, k) ==
  IF k > Len(batch) THEN EndCycle
  ELSE IF HandleMessage(batch[k].body) = "send"
  THEN /\ poll' = [pc |-> "send", cycle |-> poll.cycle, batch |-> batch, k |-> k]
       /\ sent' = Append(sent, OrderNote(batch[k].id, poll.cycle))
       /\ outcomes' = Append(outcomes, "pending")
       /\ UNCHANGED <<deletes, timers>>
  ELSE /\ poll' = [pc |-> "deleteInCatch", cycle |-> poll.cycle, batch |-> batch, k |-> k]
       /\ deletes' = Append(deletes, DeleteCall(batch[k].id, poll.cycle, TRUE))
       /\ UNCHANGED <<sent, outcomes, timers>>

feedVars == <<nextSweep, processedEvents, milestoneCache, handlers, boot, keys>>

\* the messages a receive call may return at second t
Visible(t) == {m \in queue : ~m.gone /\ m.visibleAt <= t}

\* the batches a receive call may return: up to MAX_MESSAGES of the visible
\* messages, in any order
Batches(t) ==
  {b \in UNION {[1..n -> Visible(t)] : n \in 0..Min(Cardinality(Visible(t)), MAX_MESSAGES)} :
     \A i, j \in DOMAIN b : i # j => b[i].id # b[j].id}

\* sqs.receiveMessage rejects: the outer catch logs it
ReceiveFails ==
  /\ poll.pc = "receive"
  /\ EndCycle
  /\ UNCHANGED <<now, queue, feedVars>>

\* sqs.receiveMessage resolves with batch (none: data.Messages is missing or empty)
ReceiveReturns(batch) ==
  /\ poll.pc = "receive"
  /\ queue' = {IF \E i \in DOMAIN batch : batch[i].id = m.id
               THEN [m EXCEPT !.visibleAt = now + VISIBILITY_TIMEOUT] ELSE m : m \in queue}
  /\ EnterMessage(batch, 1)
  /\ UNCHANGED <<now, feedVars>>

\* the send the poller is awaiting
AwaitedOrder == CHOOSE k \in 1..Len(sent) : sent[k].ev = 0 /\ outcomes[k] = "pending"

\* the chat send of processSQSOrder settles (a rejection is caught inside
\* sendTelegramMessage) and deleteMessage is issued
OrderSendSettles(result) ==
  /\ poll.pc = "send"
  /\ outcomes' = [outcomes EXCEPT ![AwaitedOrder] = result]
  /\ deletes' = Append(deletes, DeleteCall(poll.batch[poll.k].id, poll.cycle, FALSE))
  /\ poll' = [poll EXCEPT !.pc = "delete"]
  /\ UNCHANGED <<now, queue, sent, timers, feedVars>>

\* deleteMessage resolves: the message is gone and the loop goes on
DeleteSucceeds ==
  /\ poll.pc \in {"delete", "deleteInCatch"}
  /\ queue' = {IF m.id = poll.batch[poll.k].id THEN [m EXCEPT !.gone = TRUE] ELSE m :
                 m \in queue}
  /\ EnterMessage(poll.batch, poll.k + 1)
  /\ UNCHANGED <<now, feedVars>>

\* a variant in which the rejection in the catch block leaves the function
\* before it schedules the next poll
DeleteFailsUnscheduled ==
  /\ poll.pc \in {"delete", "deleteInCatch"}
  /\ IF poll.pc = "delete"
     THEN /\ poll' = [poll EXCEPT !.pc = "deleteInCatch"]
          /\ deletes' = Append(deletes, DeleteCall(poll.batch[poll.k].id, poll.cycle, TRUE))
          /\ UNCHANGED <<sent, outcomes, timers>>
     ELSE /\ poll' = [pc |-> "idle", cycle |-> poll.cycle, batch |-> <<>>, k |-> 0]
          /\ UNCHANGED <<sent, outcomes, deletes, timers>>
  /\ UNCHANGED <<now, queue, feedVars>>

\* deleteMessage rejects: in the try block the catch issues it again, in the
\* catch block the rejection leaves the loop for the outer catch
DeleteFails ==
  /\ poll.pc \in {"delete", "deleteInCatch"}
  /\ IF poll.pc = "delete"
     THEN /\ poll' = [poll EXCEPT !.pc = "deleteInCatch"]
          /\ deletes' = Append(deletes, DeleteCall(poll.batch[poll.k].id, poll.cycle, TRUE))
          /\ UNCHANGED <<sent, outcomes, timers>>
     ELSE EndCycle
  /\ UNCHANGED <<now, queue, feedVars>>

\* a scheduled pollSQSMessages runs: the next cycle's receive is issued
TimerFires ==
  /\ \E due \in timers : due <= now /\ timers' = timers \ {due}
  /\ poll' = [pc |-> "receive", cycle |-> poll.cycle + 1, batch |-> <<>>, k |-> 0]
  /\ UNCHANGED <<now, queue, sent, outcomes, deletes, feedVars>>

\* the ids the queue has handed out so far
UsedIds == {m.id : m \in queue}

\* a producer puts a message with this body on the queue
Enqueue(id, body) ==
  /\ id \notin UsedIds
  /\ \A other \in 1..(id - 1) : other \in UsedIds
  /\ queue' = queue \cup {[id |-> id, body |-> body, visibleAt |-> now, gone |-> FALSE]}
  /\ UNCHANGED <<now, poll, sent, outcomes, deletes, timers, feedVars>>

(***************************************************************************)
(* The payloads the change feed delivers in this model.                    *)
(***************************************************************************)
Payload(table, event, new, hasOld, old) ==
  [table |-> table, event |-> event, new |-> new, hasOld |-> hasOld, old |-> old]

Insert(table, new) == Payload(table, "INSERT", new, FALSE, EmptyRow)

Update(table, new, old) == Payload(table, "UPDATE", new, TRUE, old)

T1 == JsStr(<<"T", "1">>)

T2 == JsStr(<<"T", "2">>)

Id1 == JsNum(1000)

Pending == JsStr(<<"p", "e", "n", "d", "i", "n", "g">>)

\* one payload for each of the seven callbacks; the last carries neither
\* updated_at nor created_at, so its key takes the arrival time
DedupPayloads ==
  { Insert("Users", [id |-> Id1, created_at |-> T1, amount_deposited |-> JsNum(0)]),
    Update("Users",
           [id |-> Id1, updated_at |-> T2, amount_deposited |-> JsNum(50000),
            total_volume |-> JsNum(1200000)],
           [id |-> Id1, amount_deposited |-> JsNum(0), total_volume |-> JsNum(900000)]),
    Insert("Auto_Trade", [id |-> Id1, created_at |-> T1, status |-> Pending]),
    Update("Auto_Trade",
           [id |-> Id1, updated_at |-> T2, status |-> JsStr(ExecutedChars)],
           [id |-> Id1, status |-> Pending]),
    Insert("Copy_Wallets",
           [id |-> Id1, created_at |-> T1, is_enabled |-> JsBool(TRUE),
            percent_ratio |-> JsNum(500)]),
    Update("Copy_Wallets",
           [id |-> Id1, updated_at |-> T2, is_enabled |-> JsBool(FALSE),
            percent_ratio |-> JsNum(500)],
           [id |-> Id1, is_enabled |-> JsBool(TRUE), percent_ratio |-> JsNum(500)]),
    Insert("Monthly_Active_Users", [id |-> Id1, transaction_count |-> JsNum(3000)]) }

(***************************************************************************)
(* SpecDedup: deliveries of the seven callbacks, redeliveries included,    *)
(* over seven minutes of sweeps.  The clock moves while no send is         *)
(* outstanding (a send settles within the half minute); arrivals while a   *)
(* callback is suspended, and on either side of a sweep due at the same    *)
(* instant, are all there.                                                 *)
(***************************************************************************)
DedupDeliveries == 2

DedupSteps == 14

AllSettled == \A i \in 1..Len(handlers) : handlers[i].pc = "done"

NextDedup ==
  \/ \E payload \in DedupPayloads : Len(handlers) < DedupDeliveries /\ Deliver(payload)
  \/ \E i \in 1..Len(handlers) : Resume(i)
  \/ AllSettled /\ AdvanceTime(DedupSteps)
  \/ Sweep

SpecDedup == Init /\ [][NextDedup]_vars

SameKey(i, j) == handlers[i].eventId = handlers[j].eventId

\* the seconds between the arrivals of callbacks i and j
Gap(i, j) == handlers[j].arrived - handlers[i].arrived

\* the texts callback i handed to the sender
NotesOf(i) == {k \in 1..Len(sent) : sent[k].ev = i}

\* C1: a delivery that arrives within the 5-minute retention window of an
\* earlier delivery with the same event key, the one that recorded the key,
\* produces no chat notification, whichever of the seven callbacks it enters.
C1_SuppressedWithinWindow ==
  \A i, j \in 1..Len(handlers) :
    (i < j /\ SameKey(i, j) /\ ~handlers[i].dup /\ Gap(i, j) * 1000 <= EVENT_CACHE_TTL)
      => NotesOf(j) = {}

\* a redelivery exactly five minutes after a delivery that was notified
C1_Witness ==
  \E i, j \in 1..Len(handlers) :
    /\ i < j /\ SameKey(i, j) /\ ~handlers[i].dup
    /\ Gap(i, j) * 1000 = EVENT_CACHE_TTL
    /\ NotesOf(i) # {} /\ NotesOf(j) = {}
    /\ AllSettled

\* C2, as the specification states it: of two deliveries with the same event
\* key that arrive more than 5 minutes apart, the second is not classified as
\* a duplicate, wherever the sweep ticks fall.
C2_NewAfterWindow ==
  \A i, j \in 1..Len(handlers) :
    (i < j /\ SameKey(i, j) /\ Gap(i, j) * 1000 > EVENT_CACHE_TTL) => ~handlers[j].dup

\* C2, amended: a delivery is classified as new when every earlier delivery
\* with its event key arrived more than 6 minutes before it (the retention
\* window and one sweep interval); it is then notified as a first delivery is.
C2_NewAfterWindowAndSweep ==
  \A j \in 1..Len(handlers) :
    (\A i \in 1..(j - 1) :
       SameKey(i, j) => Gap(i, j) * 1000 > EVENT_CACHE_TTL + SWEEP_INTERVAL)
      => ~handlers[j].dup

\* a redelivery more than six minutes after the first, notified again
C2_Witness ==
  \E i, j \in 1..Len(handlers) :
    /\ i < j /\ SameKey(i, j)
    /\ Gap(i, j) * 1000 > EVENT_CACHE_TTL + SWEEP_INTERVAL
    /\ ~handlers[j].dup /\ NotesOf(j) # {}

\* the callbacks classified as new on the entry now held for key k
NewOn(k) ==
  {i \in 1..Len(handlers) :
     handlers[i].eventId = k /\ ~handlers[i].dup /\ handlers[i].arrived >= processedEvents[k]}

\* C3: while the entry of an event key is in the store (not swept since it
\* was recorded), exactly one delivery of that key has been classified as new
\* on it, however the callbacks suspended at a send interleave.
C3_OneNewPerEntry == \A k \in DOMAIN processedEvents : Cardinality(NewOn(k)) = 1

\* a redelivery classified as duplicate while the first callback is still
\* suspended at its send
C3_Witness ==
  \E i, j \in 1..Len(handlers) :
    /\ i < j /\ SameKey(i, j)
    /\ ~handlers[i].dup /\ handlers[i].pc # "done"
    /\ handlers[j].dup /\ handlers[j].eventId \in DOMAIN processedEvents

(***************************************************************************)
(* SpecMilestone: Users UPDATEs of one user whose volume (and, in one, the *)
(* transaction count) moves along the ladder, from the first arrival to    *)
(* the next sweep and past it.  The rows carry no updated_at, so the event *)
(* key takes the arrival time.  One update also carries a deposit, so its  *)
(* callback is suspended at the deposit send before it reaches the         *)
(* milestone checks; one jumps both ladders over several rungs, the volume *)
(* from below the first rung to above the last.                            *)
(***************************************************************************)
Volume(old, new) ==
  Update("Users", [id |-> Id1, total_volume |-> JsNum(1000 * new)],
                  [id |-> Id1, total_volume |-> JsNum(1000 * old)])

MilestonePayloads ==
  { Volume(900, 1200), Volume(1200, 1300), Volume(1300, 6000),
    Update("Users",
           [id |-> Id1, amount_deposited |-> JsNum(50000), total_volume |-> JsNum(1200000)],
           [id |-> Id1, amount_deposited |-> JsNum(0), total_volume |-> JsNum(900000)]),
    Update("Users",
           [id |-> Id1, total_volume |-> JsNum(200000000), txns_executed |-> JsNum(60000)],
           [id |-> Id1, total_volume |-> JsNum(900000), txns_executed |-> JsNum(5000)]) }

MilestoneDeliveries == 3

MilestoneSteps == 2

NextMilestone ==
  \/ \E payload \in MilestonePayloads : Len(handlers) < MilestoneDeliveries /\ Deliver(payload)
  \/ \E i \in 1..Len(handlers) : Resume(i)
  \/ handlers # <<>> /\ AllSettled /\ AdvanceTime(MilestoneSteps)
  \/ Sweep

SpecMilestone == Init /\ [][NextMilestone]_vars

\* the rungs of a metric's ladder
Rungs(metric) ==
  LET ladder == IF metric = "volume" THEN volumeMilestones ELSE txnMilestones
  IN  {ladder[k] : k \in 1..Len(ladder)}

\* the milestone checks callback i has made
ChecksOf(i) == {handlers[i].checks[k] : k \in 1..Len(handlers[i].checks)}

\* the rungs with old < rung <= new in check c, and those above the recorded mark
Crossed(c) == {m \in Rungs(c.metric) : c.old.c < 1000 * m /\ 1000 * m <= c.new.c}

Fresh(c) == {m \in Crossed(c) : m > c.last}

Lowest(S) == CHOOSE m \in S : \A u \in S : m <= u

\* the milestone texts of a metric: those of callback i, and all of them
MetricNotes(i, metric) == {k \in NotesOf(i) : sent[k].kind = metric}

RungNotes(metric, m) ==
  {k \in 1..Len(sent) : sent[k].kind = metric /\ sent[k].val = Dbl(1000 * m)}

VolOld(i) == handlers[i].payload.old.total_volume.n

VolNew(i) == handlers[i].payload.new.total_volume.n

\* the updates arrived in non-decreasing value order, each passing at most one rung
Rising ==
  /\ \A i, j \in 1..Len(handlers) : i < j => VolNew(i) <= VolOld(j)
  /\ \A i \in 1..Len(handlers) :
       /\ VolOld(i) <= VolNew(i)
       /\ Cardinality({m \in Rungs("volume") : VolOld(i) < 1000 * m /\ 1000 * m <= VolNew(i)}) <= 1

\* C4, as the specification states it: when the volume of one user rises
\* through the ladder across Users UPDATEs that arrive in non-decreasing value
\* order, then once every callback has finished each rung the value passed has
\* been notified exactly once, and the notifications went out in ascending
\* order, however the callbacks were suspended and the sweep fell.
C4_EachRungOnceAscending ==
  (AllSettled /\ Rising) =>
    /\ \A m \in Rungs("volume") :
         (\E i \in 1..Len(handlers) : VolOld(i) < 1000 * m /\ 1000 * m <= VolNew(i))
           => Cardinality(RungNotes("volume", m)) = 1
    /\ \A k, l \in 1..Len(sent) :
         (k < l /\ sent[k].kind = "volume" /\ sent[l].kind = "volume")
           => sent[k].val.c < sent[l].val.c

C6_LowestAboveMark ==
  \A i \in 1..Len(handlers) : \A c \in ChecksOf(i) :
    /\ c.hit = (IF Fresh(c) = {} THEN 0 ELSE Lowest(Fresh(c)))
    /\ {sent[k].val : k \in MetricNotes(i, c.metric)}
         = (IF c.hit = 0 THEN {} ELSE {Dbl(1000 * c.hit)})

\* 900 -> 1200 notifies 1000, then 1200 -> 1300 nothing, then 1300 -> 6000
\* notifies 5000 on the mark 1000
C6_Witness ==
  \E i, j, k \in 1..Len(handlers) :
    /\ i < j /\ j < k
    /\ \E c \in ChecksOf(i) :
         c.metric = "volume" /\ c.old = Dbl(900000) /\ c.new = Dbl(1200000) /\ c.hit = 1000
    /\ \E c \in ChecksOf(j) :
         /\ c.metric = "volume" /\ c.old = Dbl(1200000) /\ c.new = Dbl(1300000)
         /\ c.last = 1000 /\ c.hit = 0
    /\ \E c \in ChecksOf(k) :
         /\ c.metric = "volume" /\ c.old = Dbl(1300000) /\ c.new = Dbl(6000000)
         /\ c.last = 1000 /\ c.hit = 5000
    /\ Cardinality(RungNotes("volume", 1000)) = 1

\* C7, as the specification states it: the sweep evicts a milestone entry
\* only when more than an hour has passed since it was recorded, so within
\* the first hour no step removes an entry from the milestone cache.
C7_KeptForAnHour ==
  [][(now' - StartTime) * 1000 < MILESTONE_TTL
       => DOMAIN milestoneCache \subseteq DOMAIN milestoneCache']_vars

(***************************************************************************)
(* SpecClassify: UPDATEs of the three tables with an UPDATE callback, with *)
(* the before image absent, empty, holding the primary key only, or        *)
(* holding the tracked fields; the Users rows move the deposited amount    *)
(* or the PnL by amounts on either side of the two gates.                  *)
(***************************************************************************)
UpdateNoOld(table, new) == Payload(table, "UPDATE", new, FALSE, EmptyRow)

Deposited(old, new) ==
  Update("Users", [id |-> Id1, amount_deposited |-> JsNum(new)],
                  [id |-> Id1, amount_deposited |-> JsNum(old)])

PnlMoved(old, new) ==
  Update("Users", [id |-> Id1, total_pnl |-> JsNum(new)],
                  [id |-> Id1, total_pnl |-> JsNum(old)])

UserAfter ==
  [id |-> Id1, amount_deposited |-> JsNum(50000), total_pnl |-> JsNum(500000),
   total_volume |-> JsNum(1200000)]

TradeAfter(status) == [id |-> Id1, status |-> JsStr(status)]

WalletAfter == [id |-> Id1, is_enabled |-> JsBool(FALSE), percent_ratio |-> JsNum(500)]

PkOnly == [id |-> Id1]

ClassifyPayloads ==
  { Deposited(0, 10), Deposited(0, 20), Deposited(1000, 1010), Deposited(1000, 1020),
    Deposited(0 - 1000, 1000), Deposited(1020, 1000),
    PnlMoved(0, 100000), PnlMoved(100000, 0), PnlMoved(0, 99990),
    PnlMoved(28010, 128010), PnlMoved(128010, 28010),
    UpdateNoOld("Users", UserAfter), Update("Users", UserAfter, EmptyRow),
    Update("Users", UserAfter, PkOnly),
    UpdateNoOld("Auto_Trade", TradeAfter(ExecutedChars)),
    Update("Auto_Trade", TradeAfter(ExecutedChars), EmptyRow),
    Update("Auto_Trade", TradeAfter(ExecutedChars), PkOnly),
    Update("Auto_Trade", TradeAfter(FailedChars), PkOnly),
    Update("Auto_Trade", TradeAfter(ExecutedChars), [id |-> Id1, status |-> Pending]),
    UpdateNoOld("Copy_Wallets", WalletAfter), Update("Copy_Wallets", WalletAfter, EmptyRow),
    Update("Copy_Wallets", WalletAfter, PkOnly),
    Update("Copy_Wallets", WalletAfter,
           [id |-> Id1, is_enabled |-> JsBool(TRUE), percent_ratio |-> JsNum(500)]) }

ClassifyDeliveries == 2

ClassifySteps == 2

NextClassify ==
  \/ \E payload \in ClassifyPayloads : Len(handlers) < ClassifyDeliveries /\ Deliver(payload)
  \/ \E i \in 1..Len(handlers) : Resume(i)
  \/ AllSettled /\ AdvanceTime(ClassifySteps)
  \/ Sweep

SpecClassify == Init /\ [][NextClassify]_vars

\* the before image is absent, empty, or holds the primary key only
ThinBefore(p) == ~p.hasOld \/ DOMAIN p.old \subseteq {"id"}

\* C8, as the specification states it: an UPDATE of Users, Auto_Trade or
\* Copy_Wallets whose before image is absent, empty or holds only the primary
\* key produces no notification and makes no milestone check.
C8_ThinBeforeSilent ==
  \A i \in 1..Len(handlers) :
    (handlers[i].payload.event = "UPDATE" /\ ThinBefore(handlers[i].payload))
      => NotesOf(i) = {} /\ handlers[i].checks = <<>>

\* a Users UPDATE that passed the dedup gate with enough of a before image,
\* carrying field f in both images, and has run to its end
UsersMoved(i, f) ==
  /\ handlers[i].payload.table = "Users" /\ handlers[i].payload.event = "UPDATE"
  /\ ~handlers[i].dup /\ ~ThinBefore(handlers[i].payload)
  /\ f \in DOMAIN handlers[i].payload.new /\ f \in DOMAIN handlers[i].payload.old
  /\ handlers[i].pc = "done"

\* new.f - old.f in thousandths, as the decimals the row carries
Delta(i, f) == handlers[i].payload.new[f].n - handlers[i].payload.old[f].n

KindNotes(i, kind) == {k \in NotesOf(i) : sent[k].kind = kind}

\* C9, as the specification states it: such a Users UPDATE emits a deposit
\* notification exactly when new.amount_deposited > old.amount_deposited,
\* old.amount_deposited >= 0 and the delta is above 0.01; a delta of 0.01 is
\* not notified and a delta of 0.02 is reported as 0.02.
C9_DepositGate ==
  \A i \in 1..Len(handlers) :
    UsersMoved(i, "amount_deposited") =>
      /\ KindNotes(i, "deposit") # {}
           <=> /\ Delta(i, "amount_deposited") > 10
               /\ handlers[i].payload.old.amount_deposited.n >= 0
      /\ \A k \in KindNotes(i, "deposit") :
           Delta(i, "amount_deposited") = 20 => sent[k].val = Dbl(20)

\* C10, as the specification states it: such a Users UPDATE emits a PnL
\* notification exactly when the PnL moved by 100 or more in either
\* direction; a swing of exactly 100 is notified, one of 99.99 is not.
C10_PnlGate ==
  \A i \in 1..Len(handlers) :
    UsersMoved(i, "total_pnl") =>
      (KindNotes(i, "pnl") # {}
         <=> \/ Delta(i, "total_pnl") >= 100000
             \/ Delta(i, "total_pnl") <= 0 - 100000)

(***************************************************************************)
(* SpecQueue: producers put orders and malformed bodies on the queue while *)
(* the poller runs its cycles; receive, send and delete calls may each     *)
(* fail.  A received message that was not deleted is visible again after   *)
(* the visibility timeout.  The clock moves while the poller waits for a   *)
(* receive or for its timer (a send or delete settles within the second).  *)
(***************************************************************************)
QueueBodies == {OrderBody, NullBody, BrokenBody}

QueueMessages == 2

PollCycles == 2

QueueSteps == 1

NextQueue ==
  \/ \E id \in 1..QueueMessages : \E body \in QueueBodies : Enqueue(id, body)
  \/ ReceiveFails
  \/ \E batch \in Batches(now) : ReceiveReturns(batch)
  \/ \E result \in {"ok", "failed"} : OrderSendSettles(result)
  \/ DeleteSucceeds
  \/ DeleteFails
  \/ poll.cycle < PollCycles /\ TimerFires
  \/ poll.pc \in {"idle", "receive"} /\ AdvanceTime(QueueSteps)

SpecQueue == Init /\ [][NextQueue]_vars

\* the deleteMessage calls issued for message id, and the texts sent for it
DeletesOf(id) == {k \in 1..Len(deletes) : deletes[k].handle = id}

OrdersOf(id) == {k \in 1..Len(sent) : sent[k].ev = 0 /\ sent[k].handle = id}

\* the loop has taken up batch[k] in this cycle and is past its try block
TakenUp(k) == k < poll.k \/ (k = poll.k /\ poll.pc \in {"delete", "deleteInCatch"})

\* C11: a queue message whose body is not valid JSON (BrokenBody here), once
\* the loop has taken it up, has had deleteMessage issued with its receipt
\* handle in that cycle, and no chat send is ever made for it.
C11_InvalidBodyAcknowledged ==
  /\ \A k \in 1..Len(poll.batch) :
       (TakenUp(k) /\ poll.batch[k].body = BrokenBody)
         => \E d \in DeletesOf(poll.batch[k].id) : deletes[d].cycle = poll.cycle
  /\ \A m \in queue : m.body = BrokenBody => OrdersOf(m.id) = {}

\* an unparseable message was received and deleted from the queue, unsent
C11_Witness ==
  \E m \in queue :
    /\ m.body = BrokenBody /\ m.gone
    /\ Cardinality(DeletesOf(m.id)) = 1
    /\ \A d \in DeletesOf(m.id) : deletes[d].inCatch
    /\ OrdersOf(m.id) = {}
    /\ poll.pc = "idle"

\* the sends made for message id that settled with the given result
SettledOrders(id, result) == {k \in OrdersOf(id) : outcomes[k] = result}

\* C12: a chat-send failure never causes message loss: a queue message whose
\* notification failed to send, and was never sent successfully, is not
\* deleted from the queue.
C12_FailedSendKeepsMessage ==
  \A m \in queue :
    (SettledOrders(m.id, "failed") # {} /\ SettledOrders(m.id, "ok") = {}) => ~m.gone

(***************************************************************************)
(* SpecSend: sends that resolve or reject, for both sources.  The feed     *)
(* delivers a Users UPDATE that fires all six rules, one that fires the    *)
(* first and the last, and an Auto_Trade INSERT; the queue holds orders.   *)
(***************************************************************************)
AllSix ==
  Update("Users",
         [id |-> Id1, updated_at |-> T2, amount_deposited |-> JsNum(50000),
          total_pnl |-> JsNum(150000), total_volume |-> JsNum(1200000),
          txns_executed |-> JsNum(12000), is_copytrading_enabled |-> JsBool(TRUE),
          fees_total |-> JsNum(60000)],
         [id |-> Id1, amount_deposited |-> JsNum(0), total_pnl |-> JsNum(0),
          total_volume |-> JsNum(900000), txns_executed |-> JsNum(5000),
          is_copytrading_enabled |-> JsBool(FALSE), fees_total |-> JsNum(0)])

DepositAndFees ==
  Update("Users",
         [id |-> Id1, updated_at |-> T1, amount_deposited |-> JsNum(50000),
          fees_total |-> JsNum(60000)],
         [id |-> Id1, amount_deposited |-> JsNum(0), fees_total |-> JsNum(0)])

TradeInsert == Insert("Auto_Trade", [id |-> Id1, created_at |-> T1, status |-> Pending])

SendPayloads == {AllSix, TradeInsert}

SendDeliveries == 2

SendMessages == 1

SendFailures == 1

\* the sends that have failed so far
Failures == Cardinality({k \in 1..Len(outcomes) : outcomes[k] = "failed"})

NextSend ==
  \/ \E payload \in SendPayloads : Len(handlers) < SendDeliveries /\ Deliver(payload)
  \/ \E i \in 1..Len(handlers) : Resume(i)
  \/ \E i \in 1..Len(handlers) : Failures < SendFailures /\ ResumeFailed(i)
  \/ \E id \in 1..SendMessages : Enqueue(id, OrderBody)
  \/ \E batch \in Batches(now) : ReceiveReturns(batch)
  \/ OrderSendSettles("ok")
  \/ Failures < SendFailures /\ OrderSendSettles("failed")
  \/ DeleteSucceeds

SpecSend == Init /\ [][NextSend]_vars

\* the kinds of the texts callback i handed to the sender, in the order sent
SentBy(i) == SelectSeq(sent, LAMBDA n : n.ev = i)

KindsOf(i) == [k \in 1..Len(SentBy(i)) |-> SentBy(i)[k].kind]

\* the texts the payloads of SpecSend call for, in the order of the rules
Expected(payload) ==
  IF payload = AllSix THEN <<"deposit", "pnl", "volume", "txns", "copytrading", "fees">>
  ELSE <<"trade_insert">>

\* how many of them callback i has reached
Reached(i) ==
  LET e == Expected(handlers[i].payload)
  IN  IF handlers[i].pc = "done" THEN Len(e)
      ELSE IF handlers[i].pc = "send" THEN 1
      ELSE CHOOSE k \in 1..Len(e) : e[k] = handlers[i].pc

C14_SendsInArrivalOrder ==
  \A k, l \in 1..Len(sent) :
    (k < l /\ sent[k].ev >= 1 /\ sent[l].ev >= 1) => sent[k].ev <= sent[l].ev

\* callback i has evaluated its last rule: it is done, or awaits the send of
\* its last rule (the fee rule of a Users UPDATE, the one send of the others)
RulesDone(i) == handlers[i].pc \in {"done", "send", UsersStages[Len(UsersStages)]}

\* C15: the classifier logic of two events never runs interleaved: no event's
\* dedup check runs (its callback is entered) while an earlier event's
\* callback still has rules or milestone checks to evaluate.
C15_ClassifierNotInterleaved ==
  \A i, j \in 1..Len(handlers) : i < j => RulesDone(i)

\* C16: the poll loop never terminates: the poller is either inside a cycle,
\* with no poll scheduled, or between cycles with exactly one poll scheduled;
\* and every step that ends a cycle, however it ends, schedules that poll one
\* second (POLL_DELAY) after the instant the cycle ends.
C16_AlwaysOneNextPoll ==
  /\ [](IF poll.pc = "idle" THEN Cardinality(timers) = 1 ELSE timers = {})
  /\ [][(poll.pc # "idle" /\ poll'.pc = "idle") => timers' = {now + 1}]_vars

\* a cycle ended in the outer catch, a deleteMessage having been rejected in
\* the try block and again in the catch block, and the next poll is scheduled
C16_Witness ==
  /\ poll.pc = "idle" /\ Cardinality(timers) = 1 /\ deletes # <<>>
  /\ deletes[Len(deletes)].inCatch /\ deletes[Len(deletes)].cycle = poll.cycle
  /\ \E m \in queue : m.id = deletes[Len(deletes)].handle /\ ~m.gone
                      /\ Cardinality(DeletesOf(m.id)) = 2

\* C17: every message a receive call returned has had deleteMessage issued for
\* its receipt handle by the time that cycle ends, whatever happened to the
\* other messages of the batch.
C17_AllAcknowledgedInCycle ==
  [][(poll.pc # "idle" /\ poll'.pc = "idle")
       => \A k \in 1..Len(poll.batch) :
            \E d \in 1..Len(deletes') : /\ deletes'[d].handle = poll.batch[k].id
                                        /\ deletes'[d].cycle = poll.cycle]_vars

(***************************************************************************)
(* SpecStartup: the top-level script, from the reading of process.env to   *)
(* the subscription, for every environment in which each of the eight      *)
(* names is absent, empty or set.  No timer runs and no poll is issued     *)
(* until the script starts them; the channel delivers once subscribed.     *)
(***************************************************************************)
EnvValues == {Undefined, JsStr(<<>>), JsStr(<<"x">>)}

\* a variant of the test that leaves out the last name of its range
MissingButLast(env, from, to) == \E i \in from..(to - 1) : ~Truthy(env[i])

\* !A || !B || !C || !D over the names from..to of ConfigNames
Missing(env, from, to) == \E i \in from..to : ~Truthy(env[i])

InitStartup ==
  /\ now = StartTime
  /\ nextSweep = 0
  /\ processedEvents = [k \in {} |-> 0]
  /\ milestoneCache = [k \in {} |-> 0]
  /\ handlers = <<>>
  /\ sent = <<>>
  /\ outcomes = <<>>
  /\ queue = {}
  /\ poll = [pc |-> "unstarted", cycle |-> 0, batch |-> <<>>, k |-> 0]
  /\ deletes = <<>>
  /\ timers = {}
  /\ boot \in [pc : {"start"}, code : {0}, env : [1..Len(ConfigNames) -> EnvValues],
               made : {<<>>}]
  /\ keys = {}

\* process.exit(1)
Exit(code) == boot' = [boot EXCEPT !.pc = "exited", !.code = code]

\* the first test: the database and chat names
CheckFirst ==
  /\ boot.pc = "start"
  /\ IF Missing(boot.env, 1, 4) THEN Exit(1) ELSE boot' = [boot EXCEPT !.pc = "checked"]
  /\ UNCHANGED <<now, nextSweep, processedEvents, milestoneCache, handlers, sent, outcomes,
                 pollVars, keys>>

\* the second test: the queue names
CheckSecond ==
  /\ boot.pc = "checked"
  /\ IF Missing(boot.env, 5, 8) THEN Exit(1) ELSE boot' = [boot EXCEPT !.pc = "configured"]
  /\ UNCHANGED <<now, nextSweep, processedEvents, milestoneCache, handlers, sent, outcomes,
                 pollVars, keys>>

\* AWS.config.update, new AWS.SQS, createClient, new TelegramBot
CreateClients ==
  /\ boot.pc = "configured"
  /\ boot' = [boot EXCEPT !.pc = "clients", !.made = Append(@, "clients")]
  /\ UNCHANGED <<now, nextSweep, processedEvents, milestoneCache, handlers, sent, outcomes,
                 pollVars, keys>>

\* the two maps and setInterval(..., 60000)
StartSweep ==
  /\ boot.pc = "clients"
  /\ boot' = [boot EXCEPT !.pc = "sweeping", !.made = Append(@, "sweep")]
  /\ nextSweep' = now + SWEEP_INTERVAL \div 1000
  /\ UNCHANGED <<now, processedEvents, milestoneCache, handlers, sent, outcomes,
                 pollVars, keys>>

\* pollSQSMessages(): the first receive call is issued
StartPoll ==
  /\ boot.pc = "sweeping"
  /\ boot' = [boot EXCEPT !.pc = "polling", !.made = Append(@, "poll")]
  /\ poll' = [pc |-> "receive", cycle |-> 1, batch |-> <<>>, k |-> 0]
  /\ UNCHANGED <<now, nextSweep, processedEvents, milestoneCache, handlers, sent, outcomes,
                 queue, deletes, timers, keys>>

\* supabase.channel('db-events').on(...)....subscribe(...)
Subscribe ==
  /\ boot.pc = "polling"
  /\ boot' = [boot EXCEPT !.pc = "running", !.made = Append(@, "subscribe")]
  /\ UNCHANGED <<now, nextSweep, processedEvents, milestoneCache, handlers, sent, outcomes,
                 pollVars, keys>>

StartupDeliveries == 1

NextStartup ==
  \/ CheckFirst
  \/ CheckSecond
  \/ CreateClients
  \/ StartSweep
  \/ StartPoll
  \/ Subscribe
  \/ boot.pc = "running" /\ Len(handlers) < StartupDeliveries /\ Deliver(TradeInsert)
  \/ \E i \in 1..Len(handlers) : Resume(i)
  \/ ReceiveFails
  \/ ReceiveReturns(<<>>)

SpecStartup == InitStartup /\ [][NextStartup]_vars

\* name i of ConfigNames is absent from the environment
Absent(i) == boot.env[i] = Undefined

\* nothing has been made or started
NothingStarted ==
  /\ boot.made = <<>>
  /\ nextSweep = 0 /\ poll.pc = "unstarted" /\ timers = {}
  /\ handlers = <<>> /\ sent = <<>>

\* C18: if any of the eight configuration values is absent the script gets no
\* further than its tests: it stands before them or has exited, with status 1
\* when it has exited, and no client, sweep timer, poll or subscription has
\* been made.  A script that has run through has made all four, in this order.
C18_NoPartialStartup ==
  /\ (\E i \in 1..Len(ConfigNames) : Absent(i))
       => /\ boot.pc \in {"start", "checked", "exited"}
          /\ (\E i \in 1..4 : Absent(i)) => boot.pc \in {"start", "exited"}
          /\ NothingStarted
  /\ boot.pc = "exited" => boot.code # 0 /\ NothingStarted
  /\ boot.pc \in {"start", "checked", "configured"} => NothingStarted
  /\ boot.pc = "running" => boot.made = BootSteps

\* the script has exited with only the last name, the queue URL, absent
C18_Witness ==
  /\ boot.pc = "exited" /\ boot.code = 1
  /\ Absent(8) /\ \A i \in 1..7 : Truthy(boot.env[i])

(***************************************************************************)
(* SpecKey: generateEventId applied to payloads of a table with a list of  *)
(* relevant fields and of one without, for both operations, with the       *)
(* primary key, the two timestamps and a relevant field absent or set in   *)
(* the after image, and with the before image absent or holding another    *)
(* primary key or other field values.  keys holds the calls under          *)
(* comparison: the latest and at most one earlier one.                     *)
(***************************************************************************)
Id2 == JsNum(2000)

\* after images: both timestamps; created_at only; neither; updated_at null;
\* another value of the relevant field; the relevant field absent; the primary
\* key absent; the primary key and the timestamps absent; a field more that is
\* in no list
KeyRows ==
  { [id |-> Id1, updated_at |-> T2, created_at |-> T1, amount_deposited |-> JsNum(50000)],
    [id |-> Id1, created_at |-> T1, amount_deposited |-> JsNum(50000)],
    [id |-> Id1, amount_deposited |-> JsNum(50000)],
    [id |-> Id1, updated_at |-> Null, created_at |-> T1, amount_deposited |-> JsNum(50000)],
    [id |-> Id1, updated_at |-> T2, created_at |-> T1, amount_deposited |-> JsNum(0)],
    [id |-> Id1, updated_at |-> T2, created_at |-> T1],
    [updated_at |-> T2, created_at |-> T1, amount_deposited |-> JsNum(50000)],
    [amount_deposited |-> JsNum(50000)],
    [id |-> Id1, updated_at |-> T2, created_at |-> T1, amount_deposited |-> JsNum(50000),
     username |-> JsStr(<<"x">>)] }

KeyOlds == {[id |-> Id2], [id |-> Id1, updated_at |-> T1, amount_deposited |-> JsNum(7000)]}

KeyTables == {"Users", "Monthly_Active_Users"}

\* an INSERT carries no before image
KeyPayloads ==
  {Payload(table, event, new, FALSE, EmptyRow) :
     table \in KeyTables, event \in {"INSERT", "UPDATE"}, new \in KeyRows}
  \cup
  {Payload(table, "UPDATE", new, TRUE, old) :
     table \in KeyTables, new \in KeyRows, old \in KeyOlds}

KeySteps == 1

\* one call of generateEventId, with its arguments, the instant and the result
KeyCall(payload, t, key) == [payload |-> payload, at |-> t, key |-> key]

\* a callback computes the key of payload
GenerateKey(payload) ==
  /\ \E kept \in {c \in SUBSET keys : Cardinality(c) = Min(1, Cardinality(keys))} :
       keys' = kept \cup {KeyCall(payload, now,
                                  generateEventId(payload.table, payload.event, payload, now))}
  /\ UNCHANGED <<now, nextSweep, processedEvents, milestoneCache, handlers, sent, outcomes,
                 pollVars, boot>>

NextKey ==
  \/ \E payload \in KeyPayloads : GenerateKey(payload)
  \/ AdvanceTime(KeySteps)

SpecKey == Init /\ [][NextKey]_vars

\* the five components a key is composed of
PkOf(c) ==
  IF Truthy(Get(c.payload.new, "id")) THEN c.payload.new.id
  ELSE IF c.payload.hasOld THEN Get(c.payload.old, "id") ELSE Undefined

Present(row, f) == f \in DOMAIN row /\ row[f] # Null

TimeOf(c) ==
  IF Present(c.payload.new, "updated_at") THEN c.payload.new.updated_at.s
  ELSE IF Present(c.payload.new, "created_at") THEN c.payload.new.created_at.s
  ELSE DateNowChars(c.at)

HasList(table) == table \in {"Users", "Auto_Trade", "Copy_Wallets"}

RelevantOf(c) ==
  IF c.payload.event = "UPDATE" /\ HasList(c.payload.table)
  THEN [k \in 1..Len(relevantFields(c.payload.table)) |->
          Get(c.payload.new, relevantFields(c.payload.table)[k])]
  ELSE <<>>

Composition(c) == <<c.payload.table, c.payload.event, PkOf(c), TimeOf(c), RelevantOf(c)>>

\* C19: the key is a function of (table, operation, primary key, timestamp,
\* relevant after-field values): calls with the same composition give the same
\* key; the timestamp in the key is after.updated_at if present, else
\* after.created_at, else the arrival time; the field token is empty for INSERT
\* and for a table without a list; and calls that differ in the before image
\* only, with the same primary key, give the same key.
C19_KeyFromComposition ==
  \A a, b \in keys :
    /\ Composition(a) = Composition(b) => a.key = b.key
    /\ a.key.table = a.payload.table /\ a.key.event = a.payload.event
    /\ a.key.pkts = ToStringJs(PkOf(a)) \o <<":">> \o TimeOf(a)
    /\ (a.payload.event = "INSERT" \/ ~HasList(a.payload.table))
         => a.key.fieldHash = Base64Prefix(<<>>)
    /\ (/\ a.payload.table = b.payload.table /\ a.payload.event = b.payload.event
        /\ a.payload.new = b.payload.new /\ a.at = b.at /\ PkOf(a) = PkOf(b))
         => a.key = b.key

\* two Users UPDATEs with the same after image, holding both timestamps and a
\* relevant field, one without a before image and one with, got the same key,
\* stamped with updated_at and with a field token
C19_Witness ==
  \E a, b \in keys :
    /\ a.payload.table = "Users" /\ a.payload.event = "UPDATE"
    /\ b.payload.table = "Users" /\ b.payload.event = "UPDATE"
    /\ a.payload.new = b.payload.new /\ ~a.payload.hasOld /\ b.payload.hasOld
    /\ DOMAIN a.payload.new = {"id", "updated_at", "created_at", "amount_deposited"}
    /\ a.payload.new.updated_at = T2 /\ a.payload.new.amount_deposited = JsNum(50000)
    /\ a.key = b.key /\ a.key.fieldHash # Base64Prefix(<<>>)

FixedOrder == <<"deposit", "pnl", "volume", "txns", "copytrading", "fees">>

Rank(kind) == CHOOSE k \in 1..Len(FixedOrder) : FixedOrder[k] = kind

UsersUpdates ==
  {i \in 1..Len(handlers) : /\ handlers[i].payload.table = "Users"
                            /\ handlers[i].payload.event = "UPDATE" /\ ~handlers[i].dup}

\* C20: the texts of one non-duplicate Users UPDATE are sent in the order
\* deposit, PnL, volume milestone, transaction milestone, copytrading flip,
\* fee spike, each at most once, and a text is sent only when the send of the
\* one before it has settled.
C20_FixedOrderSequential ==
  \A i \in UsersUpdates : \A k, l \in NotesOf(i) :
    k < l => /\ sent[k].kind \in {FixedOrder[r] : r \in 1..Len(FixedOrder)}
             /\ sent[l].kind \in {FixedOrder[r] : r \in 1..Len(FixedOrder)}
             /\ Rank(sent[k].kind) < Rank(sent[l].kind)
             /\ outcomes[k] # "pending"

\* an update that fires all six rules has sent its six texts, the last still
\* outstanding, while another callback's text was sent in between
C20_Witness ==
  \E i \in UsersUpdates :
    /\ Cardinality(NotesOf(i)) = 6 /\ handlers[i].pc = "fees"
    /\ \E n \in 1..Len(sent) : /\ sent[n].ev \notin {0, i}
                               /\ \E k, l \in NotesOf(i) : k < n /\ n < l

\* the texts handed to the sender in this step
NewNotes == (Len(sent) + 1)..Len(sent')

\* the cache key of milestone text n, of the user its callback's payload names
NoteKey(n) == CacheKey(Get(handlers'[sent'[n].ev].payload.new, "id"), sent'[n].kind)

\* C21: an entry of the milestone cache always holds a rung of its metric's
\* ladder and, while it exists, only increases; when a milestone text is handed
\* to the sender its rung is already the recorded value, and it is above the
\* value recorded before; under any interleaving of callbacks and sweeps.
C21_MarkOnLadderAndRising ==
  [][/\ \A key \in DOMAIN milestoneCache' :
          /\ milestoneCache'[key] \in Rungs(key[2])
          /\ key \in DOMAIN milestoneCache => milestoneCache'[key] >= milestoneCache[key]
     /\ \A n \in NewNotes :
          sent'[n].kind \in {"volume", "txns"}
            => /\ NoteKey(n) \in DOMAIN milestoneCache'
               /\ sent'[n].val = Dbl(1000 * milestoneCache'[NoteKey(n)])
               /\ NoteKey(n) \in DOMAIN milestoneCache
                    => 1000 * milestoneCache[NoteKey(n)] < sent'[n].val.c]_vars

\* the mark of user 1's volume stands at 5000, raised from 1000 by a later
\* update while the entry existed, each rung notified once
C21_Witness ==
  /\ CacheKey(Id1, "volume") \in DOMAIN milestoneCache
  /\ milestoneCache[CacheKey(Id1, "volume")] = 5000
  /\ \E i, j \in 1..Len(handlers) :
       /\ i < j
       /\ \E c \in ChecksOf(i) : c.metric = "volume" /\ c.last = 0 /\ c.hit = 1000
       /\ \E c \in ChecksOf(j) : c.metric = "volume" /\ c.last = 1000 /\ c.hit = 5000
  /\ Cardinality(RungNotes("volume", 5000)) = 1

\* the age of the dedup entry of key at second t, in milliseconds
AgeMs(pe, key, t) == (t - pe[key]) * 1000

\* C22: a step removes a dedup entry only if the entry is older than 5
\* minutes; right after a sweep tick no entry older than 5 minutes is left;
\* and no entry is ever older than 5 minutes plus one sweep interval.
C22_SweepWithinWindow ==
  /\ [][/\ \A key \in DOMAIN processedEvents \ DOMAIN processedEvents' :
             AgeMs(processedEvents, key, now) > 5 * 60 * 1000
        /\ nextSweep' # nextSweep
             => \A key \in DOMAIN processedEvents' :
                  AgeMs(processedEvents', key, now') <= 5 * 60 * 1000]_vars
  /\ [](\A key \in DOMAIN processedEvents :
          AgeMs(processedEvents, key, now) <= 5 * 60 * 1000 + 60000)

\* the sweep tick six minutes in has removed the entry recorded at the start
\* and kept one that is exactly five minutes old
C22_Witness ==
  /\ now = StartTime + 360 /\ nextSweep = now + 60
  /\ \E i, j \in 1..Len(handlers) :
       /\ ~handlers[i].dup /\ handlers[i].arrived = StartTime
       /\ handlers[i].eventId \notin DOMAIN processedEvents
       /\ ~handlers[j].dup /\ handlers[j].eventId \in DOMAIN processedEvents
       /\ AgeMs(processedEvents, handlers[j].eventId, now) = 5 * 60 * 1000

(***************************************************************************)
(* SpecRules: UPDATEs that exercise single rules of the classifier.  The   *)
(* Copy_Wallets rows flip the enabled flag, move the ratio by 0.001 (from  *)
(* 0.1 and from 0.101), by 0.002, or not at all, do both at once, or come  *)
(* with a before image that lacks the flag.  The Users rows carry the      *)
(* copytrading flag, or not, in either image, or a numeric field that is   *)
(* missing, null or not a number in one image.  Two pairs of updates have  *)
(* the same event key, one of the pair with the primary key alone before.  *)
(***************************************************************************)
Wallet(enabled, ratio) ==
  [id |-> Id1, is_enabled |-> JsBool(enabled), percent_ratio |-> JsNum(ratio)]

WalletPayloads ==
  { Update("Copy_Wallets", Wallet(FALSE, 500), Wallet(TRUE, 500)),
    Update("Copy_Wallets", Wallet(FALSE, 102), Wallet(TRUE, 100)),
    Update("Copy_Wallets", Wallet(TRUE, 101), Wallet(TRUE, 100)),
    Update("Copy_Wallets", Wallet(TRUE, 102), Wallet(TRUE, 101)),
    Update("Copy_Wallets", Wallet(TRUE, 102), Wallet(TRUE, 100)),
    Update("Copy_Wallets", Wallet(TRUE, 100), Wallet(TRUE, 102)),
    Update("Copy_Wallets", Wallet(TRUE, 500), Wallet(TRUE, 500)),
    Update("Copy_Wallets", Wallet(TRUE, 500), [id |-> Id1, percent_ratio |-> JsNum(500)]) }

\* Users rows whose before image holds the copytrading flag (false, true or
\* null) or lacks it, with the flag true, false or absent in the after image
Flag(row, v) == [f \in DOMAIN row \cup {"is_copytrading_enabled"} |->
                   IF f = "is_copytrading_enabled" THEN v ELSE row[f]]

UserRow == [id |-> Id1, total_pnl |-> JsNum(0)]

FlagPayloads ==
  { Update("Users", Flag(UserRow, JsBool(TRUE)), Flag(UserRow, JsBool(FALSE))),
    Update("Users", Flag(UserRow, JsBool(TRUE)), Flag(UserRow, JsBool(TRUE))),
    Update("Users", Flag(UserRow, JsBool(FALSE)), Flag(UserRow, JsBool(TRUE))),
    Update("Users", Flag(UserRow, JsBool(TRUE)), UserRow),
    Update("Users", Flag(UserRow, JsBool(FALSE)), UserRow),
    Update("Users", Flag(UserRow, JsBool(FALSE)), Flag(UserRow, Null)),
    Update("Users", Flag(UserRow, JsBool(TRUE)), Flag(UserRow, Null)),
    Update("Users", UserRow, Flag(UserRow, JsBool(TRUE))) }

NotANumber == JsStr(<<"a", "b", "c">>)

\* a Users UPDATE in which field f goes from before to after
Moved(f, before, after) ==
  Update("Users", [x \in {"id", f} |-> IF x = "id" THEN Id1 ELSE after],
                  [x \in {"id", f} |-> IF x = "id" THEN Id1 ELSE before])

\* Users rows in which a numeric field is missing, null, a numeric string or a
\* string that is no number, in the before or the after image
CoercionPayloads ==
  { Update("Users", [id |-> Id1, amount_deposited |-> JsNum(50000)], UserRow),
    Moved("amount_deposited", Null, JsNum(50000)),
    Moved("amount_deposited", NotANumber, JsNum(50000)),
    Moved("total_pnl", JsNum(150000), Null),
    Moved("total_pnl", JsNum(150000), NotANumber),
    Moved("total_pnl", JsNum(150000), JsStr(<<"2", "0">>)),
    Moved("total_volume", NotANumber, JsNum(1200000)),
    Moved("total_volume", Null, JsNum(1200000)),
    Moved("txns_executed", JsNum(5000), NotANumber),
    Moved("fees_total", NotANumber, JsNum(60000)),
    Moved("fees_total", Null, JsNum(60000)) }

\* the same after image, stamped with updated_at, with a before image that
\* holds the primary key only and with a full one
StampedUser == [id |-> Id1, updated_at |-> T2, amount_deposited |-> JsNum(50000)]

StampedWallet ==
  [id |-> Id1, updated_at |-> T2, is_enabled |-> JsBool(FALSE), percent_ratio |-> JsNum(500)]

RedeliveryPayloads ==
  { Update("Users", StampedUser, PkOnly),
    Update("Users", StampedUser, [id |-> Id1, amount_deposited |-> JsNum(0)]),
    Update("Copy_Wallets", StampedWallet, PkOnly),
    Update("Copy_Wallets", StampedWallet, Wallet(TRUE, 500)) }

\* two updates of one row at one updated_at whose after images differ in
\* fees_total, the last field of the Users list
FeesAt(v) ==
  Update("Users", [id |-> Id1, updated_at |-> T2, amount_deposited |-> JsNum(50000),
                   fees_total |-> JsNum(v)],
         [id |-> Id1, amount_deposited |-> JsNum(50000), fees_total |-> JsNum(0)])

LateFieldPayloads == {FeesAt(100000), FeesAt(200000)}

RulesPayloads ==
  WalletPayloads \cup FlagPayloads \cup CoercionPayloads \cup RedeliveryPayloads
    \cup LateFieldPayloads

RulesDeliveries == 2

NextRules ==
  \/ \E payload \in RulesPayloads : Len(handlers) < RulesDeliveries /\ Deliver(payload)
  \/ \E i \in 1..Len(handlers) : Resume(i)

SpecRules == Init /\ [][NextRules]_vars

\* a Copy_Wallets UPDATE that passed the dedup gate with enough of a before image
WalletsMoved(i) ==
  /\ handlers[i].payload.table = "Copy_Wallets" /\ handlers[i].payload.event = "UPDATE"
  /\ ~handlers[i].dup /\ ~ThinBefore(handlers[i].payload)

Flipped(i) ==
  Get(handlers[i].payload.new, "is_enabled") # Get(handlers[i].payload.old, "is_enabled")

\* new.percent_ratio - old.percent_ratio in thousandths, as decimals
RatioDelta(i) ==
  handlers[i].payload.new.percent_ratio.n - handlers[i].payload.old.percent_ratio.n

\* the same difference as the subtraction of two doubles gives it
RatioChange(i) ==
  FSub(ToNumber(Get(handlers[i].payload.new, "percent_ratio")),
       ToNumber(Get(handlers[i].payload.old, "percent_ratio")))

\* C23, as the specification states it: such an update emits at most one
\* text: the enabled-flip text when the flag differs, otherwise the ratio text
\* exactly when the ratios differ by more than 0.001.
C23_OneWalletNote ==
  \A i \in 1..Len(handlers) :
    WalletsMoved(i) =>
      /\ Cardinality(NotesOf(i)) <= 1
      /\ KindNotes(i, "wallet_enabled") # {} <=> Flipped(i)
      /\ KindNotes(i, "wallet_ratio") # {}
           <=> (~Flipped(i) /\ (RatioDelta(i) > 1 \/ RatioDelta(i) < 0 - 1))

\* C23, amended: the same, the ratio text exactly when the difference of the
\* two ratios, subtracted as doubles, is more than 0.001 in magnitude.
C23_OneWalletNoteDoubles ==
  \A i \in 1..Len(handlers) :
    WalletsMoved(i) =>
      /\ Cardinality(NotesOf(i)) <= 1
      /\ KindNotes(i, "wallet_enabled") # {} <=> Flipped(i)
      /\ KindNotes(i, "wallet_ratio") # {}
           <=> (~Flipped(i) /\ DGt(DAbs(RatioChange(i)), Dbl(1)))

\* an update that flips the flag and moves the ratio by 0.002 sent the flip
\* text only, and one that moves the ratio from 0.1 to 0.101 sent the ratio text
C23_Witness ==
  \E i, j \in 1..Len(handlers) :
    /\ WalletsMoved(i) /\ Flipped(i) /\ RatioDelta(i) = 2
    /\ handlers[i].pc = "done" /\ Cardinality(KindNotes(i, "wallet_enabled")) = 1
    /\ Cardinality(NotesOf(i)) = 1
    /\ WalletsMoved(j) /\ ~Flipped(j) /\ RatioDelta(j) = 1
    /\ Cardinality(KindNotes(j, "wallet_ratio")) = 1

\* a Users UPDATE that passed the dedup gate with enough of a before image
UsersPassed(i) ==
  /\ handlers[i].payload.table = "Users" /\ handlers[i].payload.event = "UPDATE"
  /\ ~handlers[i].dup /\ ~ThinBefore(handlers[i].payload)

\* the before image holds the flag and its boolean value differs from the after image's
FlagFlipped(i) ==
  /\ "is_copytrading_enabled" \in DOMAIN handlers[i].payload.old
  /\ Truthy(Get(handlers[i].payload.new, "is_copytrading_enabled"))
       # Truthy(handlers[i].payload.old.is_copytrading_enabled)

\* C24: a Users UPDATE emits the copytrading text only if the before image
\* holds the is_copytrading_enabled key and the boolean value of the flag
\* differs between before and after (and then, once it has run through, it
\* has emitted it); with the key absent from before it never does.
C24_FlipNeedsBeforeKey ==
  \A i \in 1..Len(handlers) :
    /\ KindNotes(i, "copytrading") # {} => UsersPassed(i) /\ FlagFlipped(i)
    /\ (UsersPassed(i) /\ handlers[i].pc = "done" /\ FlagFlipped(i))
         => Cardinality(KindNotes(i, "copytrading")) = 1

\* one update whose before image lacks the key while the flag is true after
\* has run through silently, and one that turns the flag on has sent the text
C24_Witness ==
  \E i, j \in 1..Len(handlers) :
    /\ UsersPassed(i) /\ handlers[i].pc = "done" /\ NotesOf(i) = {}
    /\ "is_copytrading_enabled" \notin DOMAIN handlers[i].payload.old
    /\ Get(handlers[i].payload.new, "is_copytrading_enabled") = JsBool(TRUE)
    /\ UsersPassed(j) /\ FlagFlipped(j) /\ KindNotes(j, "copytrading") # {}

\* the thousandths a field value stands for when everything that is missing,
\* null or no number counts as 0
ZeroOr(v) ==
  CASE v.t = "number" -> v.n
    [] v.t = "string" /\ IsUnsignedLiteral(v.s) -> UnsignedValue(v.s)
    [] OTHER -> 0

Before(i, f) == ZeroOr(Get(handlers[i].payload.old, f))

After(i, f) == ZeroOr(Get(handlers[i].payload.new, f))

\* C25, as the specification states it: in a Users UPDATE every missing, null
\* or non-numeric value of the five numeric fields counts as 0 in the gates:
\* once the callback has run through, the deposit, PnL and fee texts are there
\* exactly when the gates hold on those values, and the milestone checks were
\* made on them.
C25_InvalidCountsAsZero ==
  \A i \in 1..Len(handlers) :
    (UsersPassed(i) /\ handlers[i].pc = "done") =>
      /\ KindNotes(i, "deposit") # {}
           <=> /\ After(i, "amount_deposited") - Before(i, "amount_deposited") > 10
               /\ Before(i, "amount_deposited") >= 0
      /\ KindNotes(i, "pnl") # {}
           <=> \/ After(i, "total_pnl") - Before(i, "total_pnl") >= 100000
               \/ Before(i, "total_pnl") - After(i, "total_pnl") >= 100000
      /\ KindNotes(i, "fees") # {}
           <=> After(i, "fees_total") - Before(i, "fees_total") >= 50000
      /\ \A c \in ChecksOf(i) :
           /\ c.metric = "volume"
                => c.old = Dbl(Before(i, "total_volume")) /\ c.new = Dbl(After(i, "total_volume"))
           /\ c.metric = "txns"
                => c.old = Dbl(Before(i, "txns_executed")) /\ c.new = Dbl(After(i, "txns_executed"))

\* this step is the delivery of an event that is classified as duplicate
DuplicateArrives ==
  /\ Len(handlers') = Len(handlers) + 1
  /\ handlers'[Len(handlers')].dup

\* C26: a delivery classified as duplicate changes no state: the dedup store
\* is as before, the time recorded for the key included, the milestone store
\* is as before, and nothing is handed to the sender.
C26_DuplicateChangesNothing ==
  [][DuplicateArrives
       => /\ processedEvents' = processedEvents
          /\ milestoneCache' = milestoneCache
          /\ sent' = sent]_vars

\* a duplicate has arrived later than the time recorded for its key, with the
\* milestone store holding an entry
C26_Witness ==
  \E j \in 1..Len(handlers) :
    /\ handlers[j].dup
    /\ handlers[j].eventId \in DOMAIN processedEvents
    /\ processedEvents[handlers[j].eventId] < handlers[j].arrived
    /\ DOMAIN milestoneCache # {}

\* C27: an UPDATE discarded for too little of a before image has still
\* recorded its key: it sent nothing, and a later delivery with the same key,
\* the key still in the store, is a duplicate and sends nothing, even with a
\* complete before image.
C27_DiscardedKeyConsumed ==
  \A i, j \in 1..Len(handlers) :
    (/\ i < j /\ SameKey(i, j) /\ ~handlers[i].dup
     /\ handlers[i].payload.event = "UPDATE"
     /\ handlers[i].payload.table \in {"Users", "Copy_Wallets"}
     /\ ThinBefore(handlers[i].payload)
     /\ handlers[i].eventId \in DOMAIN processedEvents)
      => /\ NotesOf(i) = {}
         /\ handlers[j].dup /\ NotesOf(j) = {}

\* for both tables: the update with the primary key alone before came first
\* and the one with the full before image after it was dropped
C27_Witness ==
  \E i, j \in 1..Len(handlers) :
    /\ i < j /\ SameKey(i, j) /\ ~handlers[i].dup /\ handlers[j].dup
    /\ ThinBefore(handlers[i].payload) /\ ~ThinBefore(handlers[j].payload)
    /\ handlers[i].payload.table = "Users" /\ handlers[i].payload.event = "UPDATE"
    /\ sent = <<>>

\* callback i as a call of generateEventId
CallOf(i) == [payload |-> handlers[i].payload, at |-> handlers[i].arrived]

\* callbacks i and j carry updates of one table, one primary key and one
\* timestamp component whose after images differ in a relevant field
DifferInRelevant(i, j) ==
  /\ handlers[i].payload.event = "UPDATE" /\ handlers[j].payload.event = "UPDATE"
  /\ handlers[i].payload.table = handlers[j].payload.table
  /\ HasList(handlers[i].payload.table)
  /\ PkOf(CallOf(i)) = PkOf(CallOf(j))
  /\ TimeOf(CallOf(i)) = TimeOf(CallOf(j))
  /\ RelevantOf(CallOf(i)) # RelevantOf(CallOf(j))

\* C28: two updates of one table with the same primary key and the same
\* timestamp component whose after images differ in a relevant field have
\* different event keys, and the later one is not dropped as a duplicate when
\* no other delivery came before it.
C28_DifferentValuesDifferentKeys ==
  \A i, j \in 1..Len(handlers) :
    (i < j /\ DifferInRelevant(i, j))
      => /\ ~SameKey(i, j)
         /\ (j = 2 => ~handlers[j].dup)

(***************************************************************************)
(* SpecMarks: Users updates of two users and of both metrics, each         *)
(* crossing the first rung of its ladder, among events of the other        *)
(* callbacks, with the sweep running.                                      *)
(***************************************************************************)
MetricRow(id, field, v) == [f \in {"id", field} |-> IF f = "id" THEN id ELSE JsNum(1000 * v)]

Metric(id, field, old, new) ==
  Update("Users", MetricRow(id, field, new), MetricRow(id, field, old))

MarksPayloads ==
  { Metric(Id1, "total_volume", 900, 1200), Metric(Id2, "total_volume", 900, 1200),
    Metric(Id1, "txns_executed", 5, 12),
    Update("Auto_Trade", TradeAfter(ExecutedChars), [id |-> Id1, status |-> Pending]),
    Insert("Users", UserAfter) }

MarksDeliveries == 3

MarksSteps == 2

NextMarks ==
  \/ \E payload \in MarksPayloads : Len(handlers) < MarksDeliveries /\ Deliver(payload)
  \/ \E i \in 1..Len(handlers) : Resume(i)
  \/ handlers # <<>> /\ AllSettled /\ AdvanceTime(MarksSteps)
  \/ Sweep

SpecMarks == Init /\ [][NextMarks]_vars

\* the milestone checks callback i makes in this step
NewChecks(i) ==
  LET had == IF i <= Len(handlers) THEN Len(handlers[i].checks) ELSE 0
  IN  {handlers'[i].checks[k] : k \in (had + 1)..Len(handlers'[i].checks)}

\* the entry of the user of callback i's payload and of the metric of check c
OwnKey(i, c) == <<ToStringJs(Get(handlers'[i].payload.new, "id")), c.metric>>

\* the value under key in a store, 0 for none
MarkIn(mc, key) == IF key \in DOMAIN mc THEN mc[key] ELSE 0

\* C29: a milestone check reads the entry of its own (user, metric) pair only,
\* and an entry of the milestone store changes only in a sweep, which removes
\* entries, or in a check of its own pair made by a Users UPDATE callback,
\* which sets it to the rung notified; no other callback changes the store.
C29_MarksIndependent ==
  [][/\ \A i \in 1..Len(handlers') : \A c \in NewChecks(i) :
          /\ handlers'[i].payload.table = "Users"
          /\ handlers'[i].payload.event = "UPDATE"
          /\ c.last = MarkIn(milestoneCache, OwnKey(i, c))
     /\ \A key \in DOMAIN milestoneCache \cup DOMAIN milestoneCache' :
          MarkIn(milestoneCache', key) # MarkIn(milestoneCache, key)
            => \/ /\ nextSweep' # nextSweep
                  /\ key \notin DOMAIN milestoneCache'
               \/ \E i \in 1..Len(handlers') : \E c \in NewChecks(i) :
                    /\ key = OwnKey(i, c)
                    /\ c.hit # 0
                    /\ milestoneCache'[key] = c.hit]_vars

\* the marks of user 1's volume, user 2's volume and user 1's transactions are
\* recorded side by side, each notified at the first rung of its ladder
C29_Witness ==
  /\ DOMAIN milestoneCache = {<<<<"1">>, "volume">>, <<<<"2">>, "volume">>, <<<<"1">>, "txns">>}
  /\ milestoneCache[<<<<"1">>, "volume">>] = 1000
  /\ milestoneCache[<<<<"2">>, "volume">>] = 1000
  /\ milestoneCache[<<<<"1">>, "txns">>] = 10
  /\ Len(sent) = 3

\* the order sends not yet settled
PendingOrders == {n \in 1..Len(sent) : sent[n].ev = 0 /\ outcomes[n] = "pending"}

\* one cycle at a time: inside a cycle no poll is scheduled, between cycles at
\* most one is, and at most one order send is awaited, that of the message
\* the loop stands at
OneCycleInFlight ==
  /\ poll.pc # "idle" => timers = {}
  /\ Cardinality(timers) <= 1
  /\ Cardinality(PendingOrders) <= 1
  /\ PendingOrders # {} <=> poll.pc = "send"
  /\ poll.pc = "send" => sent[AwaitedOrder].handle = poll.batch[poll.k].id

\* the loop moves through the batch one message at a time, in batch order: it
\* takes up the next message only from the delete of the one before, a send
\* is made for the message it stands at, and deleteMessage in the try block
\* is issued in the step that settles that message's send
InBatchOrder ==
  /\ (poll'.k # poll.k /\ poll'.k # 0)
       => /\ poll'.k = poll.k + 1
          /\ poll.pc \in {"receive", "delete", "deleteInCatch"}
          /\ poll'.batch = (IF poll.pc = "receive" THEN poll'.batch ELSE poll.batch)
          /\ PendingOrders = {}
  /\ Len(sent') > Len(sent)
       => /\ poll'.k # poll.k
          /\ sent'[Len(sent')].handle = poll'.batch[poll'.k].id
  /\ Len(deletes') > Len(deletes)
       => /\ deletes'[Len(deletes')].handle = poll'.batch[poll'.k].id
          /\ \A n \in 1..Len(sent') : sent'[n].ev = 0 => outcomes'[n] # "pending"
          /\ ~deletes'[Len(deletes')].inCatch
               => /\ poll.pc = "send" /\ poll'.k = poll.k
                  /\ outcomes[AwaitedOrder] = "pending"
                  /\ sent[AwaitedOrder].handle = deletes'[Len(deletes')].handle

\* the cycle ends with the loop at the last message of its batch
BatchHandled == (poll.pc # "idle" /\ poll'.pc = "idle") => poll.k >= Len(poll.batch)

\* C30: at most one poll cycle is in flight; the next receive is issued only
\* after every message of the batch before has been handled; within a batch
\* the messages are handled one after the other in batch order, the send for
\* a message settling before its delete and before the next message is parsed.
C30_OneCycleSequential ==
  /\ []OneCycleInFlight
  /\ [][InBatchOrder /\ BatchHandled]_vars

\* overlap and order alone, without the condition on the end of the cycle
NoOverlapInOrder ==
  /\ []OneCycleInFlight
  /\ [][InBatchOrder]_vars

====
